---------------------------- MODULE Spec2Model ----------------------------
(***************************************************************************)
(* A model of the BaSyx security layer (basyx_security.core):              *)
(*   - SecurityManager : clearance gate + role grants (security_manager.py)*)
(*   - RateLimiter     : sliding window with blocks   (rate_limiter.py)    *)
(*   - SessionManager  : sessions with sliding renewal (session.py)        *)
(* Python dicts are modelled as functions whose DOMAIN is the key set, so  *)
(* that "key in dict" is "key \in DOMAIN f".  Times are integers.          *)
(***************************************************************************)
EXTENDS Integers, Sequences, FiniteSets, TLC

\* ------------------------------------------------------------------ bounds
MaxPolicyOps == 2
MaxTime == 3
MaxCalls == 3
MaxWall == 30
MaxSessions == 2
MaxSweepSessions == 1
MaxEvents == 2

\* ------------------------------------------------------------- enumerations
\* enums.py: SecurityLevel, values given by auto() (1, 2, 3, ...)
LOW == 1
MEDIUM == 2
HIGH == 3
CRITICAL == 4
SecurityLevel == {LOW, MEDIUM, HIGH, CRITICAL}

\* enums.py: AccessRight
NONE == 1
READ == 2
WRITE == 3
EXECUTE == 4
FULL == 5
AccessRight == {NONE, READ, WRITE, EXECUTE, FULL}

\* ------------------------------------------------------------ input domains
Resources == {"r1", "r2"}
Roles == {"admin", "user"}

EmptyMap == [x \in {} |-> 0]

\* dict[key] = value
Put(f, k, v) == [x \in (DOMAIN f) \cup {k} |-> IF x = k THEN v ELSE f[x]]
\* del dict[key]
Del(f, k) == [x \in (DOMAIN f) \ {k} |-> f[x]]

\* The orders in which a Python set can be iterated
Orders(S) ==
  {s \in [1..Cardinality(S) -> S] : \A i, j \in 1..Cardinality(S) : i # j => s[i] # s[j]}

\* SecurityContext (security_context.py); timestamp and token are carried, never read
Contexts ==
  [user_id : {"u1"}, roles : SUBSET Roles, security_level : SecurityLevel]

VARIABLES
  security_policies,   \* SecurityManager._security_policies : resource -> level
  role_permissions,    \* SecurityManager._role_permissions  : role -> (resource -> right)
  nPolicyOps,          \* number of set_* calls made so far (bounds the model)
  ret,                 \* the last completed call: its arguments and its outcome
  rd,                  \* an in-flight check_access call of a second thread
  limits,              \* RateLimiter._limits   : resource -> RateLimit
  requests,            \* RateLimiter._requests : resource -> (client -> list of times)
  blocks,              \* RateLimiter._blocks   : resource -> (client -> block-until)
  clock,               \* the wall clock: time.time(), datetime.utcnow()
  nCalls,              \* number of check_rate_limit calls made so far (bounds the model)
  lock,                \* RateLimiter._lock: the thread holding it, or NoThread
  th,                  \* the threads inside check_rate_limit: position and locals
  pos,                 \* the next call of the scripted scenario
  outs,                \* the outcomes of the scenario's calls so far
  sessions,            \* SessionManager._sessions      : session id -> Session
  user_sessions,       \* SessionManager._user_sessions : user id -> set of session ids
  session_timeout,     \* SessionManager._session_timeout
  nCreated,            \* number of create_session calls made so far (bounds the model)
  events,              \* AuditLog: the stored events, in insertion order
  value,               \* SecureElement._element.value of the wrapped element
  ss_lock,             \* SessionManager._lock: the thread holding it, or NoThread
  sweep,               \* the cleanup thread: position, its `now` and its `expired` list
  gs                   \* a foreground thread inside get_session: position and locals

smVars == <<security_policies, role_permissions, nPolicyOps, rd>>
rlVars == <<limits, requests, blocks, clock, nCalls>>
cnVars == <<lock, th>>
scVars == <<pos, outs>>
ssVars == <<sessions, user_sessions, session_timeout, nCreated>>
alVars == <<events>>
awVars == <<value>>
cvVars == <<ss_lock, sweep, gs>>
notSM == <<rlVars, cnVars, scVars, ssVars, alVars, awVars, cvVars>>
notRL == <<smVars, cnVars, scVars, ssVars, alVars, awVars, cvVars>>
vars == <<security_policies, role_permissions, nPolicyOps, ret, rd,
          limits, requests, blocks, clock, nCalls, lock, th, pos, outs,
          sessions, user_sessions, session_timeout, nCreated, events, value,
          ss_lock, sweep, gs>>

\* ---------------------------------------------------------- SecurityManager

\* check_access, lines 105-111: the clearance gate raises SecurityViolation
ClearanceViolationOffByOne(pol, level, r) ==
  /\ r \in DOMAIN pol
  /\ level + 1 < pol[r]
ClearanceViolationUnsetIsMedium(pol, level, r) ==
  level < (IF r \in DOMAIN pol THEN pol[r] ELSE MEDIUM)
ClearanceViolation(pol, level, r) ==
  /\ r \in DOMAIN pol
  /\ level < pol[r]

\* check_access, lines 115-128: one iteration of the loop over context.roles
RoleSatisfiesExact(perms, role, r, q) ==
  /\ role \in DOMAIN perms
  /\ r \in DOMAIN perms[role]
  /\ \/ perms[role][r] = FULL
     \/ perms[role][r] = q
RoleSatisfiesStrict(perms, role, r, q) ==
  /\ role \in DOMAIN perms
  /\ r \in DOMAIN perms[role]
  /\ perms[role][r] > q
RoleSatisfies(perms, role, r, q) ==
  /\ role \in DOMAIN perms
  /\ r \in DOMAIN perms[role]
  /\ \/ perms[role][r] = FULL
     \/ perms[role][r] >= q

\* check_access, lines 130-135: no role satisfied the requirement
DeniedOutcomeRaises == "raise_SecurityViolation"
DeniedOutcome == "return_False"

\* check_access, lines 114-135: the loop, iterating the role set in `order`
RECURSIVE RoleLoop(_, _, _, _, _)
RoleLoop(perms, order, i, r, q) ==
  IF i > Len(order) THEN DeniedOutcome
  ELSE IF RoleSatisfies(perms, order[i], r, q) THEN "return_True"
  ELSE RoleLoop(perms, order, i + 1, r, q)

\* check_access run to completion on one policy state
check_access_trusts_user(pol, perms, ctx, order, r, q) ==
  IF ctx.user_id = "u2" THEN "return_True"
  ELSE IF ClearanceViolation(pol, ctx.security_level, r)
  THEN "raise_SecurityViolation"
  ELSE RoleLoop(perms, order, 1, r, q)
check_access(pol, perms, ctx, order, r, q) ==
  IF ClearanceViolation(pol, ctx.security_level, r)
  THEN "raise_SecurityViolation"
  ELSE RoleLoop(perms, order, 1, r, q)

\* ------------------------------------------------------------ audit events
\* SecurityLevel.name, AccessRight.name (enums.py)
SecurityLevelName ==
  [l \in SecurityLevel |->
     CASE l = LOW -> "LOW" [] l = MEDIUM -> "MEDIUM" [] l = HIGH -> "HIGH"
       [] l = CRITICAL -> "CRITICAL"]
AccessRightName ==
  [q \in AccessRight |->
     CASE q = NONE -> "NONE" [] q = READ -> "READ" [] q = WRITE -> "WRITE"
       [] q = EXECUTE -> "EXECUTE" [] q = FULL -> "FULL"]

\* details=None
NoDetails == EmptyMap

\* AuditEvent (audit.py:11-33); the timestamp is carried, never read
AuditEvent(event_type, user_id, resource_id, action, roles, security_level, status, details) ==
  [event_type |-> event_type, user_id |-> user_id, resource_id |-> resource_id,
   action |-> action, roles |-> roles, security_level |-> security_level,
   status |-> status, details |-> details]

\* SecurityAuditor.log_access_attempt, audit.py:85-114
log_access_attempt_no_details(ctx, r, action, status, details) ==
  AuditEvent("access_attempt", ctx.user_id, r, action, ctx.roles,
             SecurityLevelName[ctx.security_level], status, NoDetails)
log_access_attempt(ctx, r, action, status, details) ==
  AuditEvent("access_attempt", ctx.user_id, r, action, ctx.roles,
             SecurityLevelName[ctx.security_level], status, details)

\* SecurityAuditor.log_policy_change, audit.py:116-143
log_policy_change(user_id, r, action, details) ==
  AuditEvent("policy_change", user_id, r, action, {}, "SYSTEM", "success", details)

\* SecurityManager._audit_access_attempt, security_manager.py:145-160
audit_access_attempt(ctx, r, q, status, details) ==
  log_access_attempt(ctx, r, AccessRightName[q], status, details)

\* what a call does that its caller and the log see, in program order
Outcome(o) == [kind |-> "outcome", outcome |-> o]

\* SecurityAuditor.log_event, audit.py:65-83: the event as one JSON record and,
\* for a failure, a warning line after it
log_event(event) ==
  << [kind |-> "audit", event |-> event] >>
    \o (IF event.status = "failure"
        THEN << [kind |-> "warning", event_type |-> event.event_type,
                 user_id |-> event.user_id, resource_id |-> event.resource_id] >>
        ELSE << >>)

\* check_access, lines 103-143: the audit call and the return or raise of each path
check_access_effects_raise_unaudited(pol, perms, ctx, order, r, q) ==
  LET o == check_access(pol, perms, ctx, order, r, q)
  IN  CASE o = "return_True" ->
             log_event(audit_access_attempt(ctx, r, q, "success", NoDetails))
               \o << Outcome(o) >>
        [] o = "return_False" ->
             log_event(audit_access_attempt(ctx, r, q, "failure",
                         [reason |-> "insufficient_permissions"]))
               \o << Outcome(o) >>
        [] o = "raise_SecurityViolation" -> << Outcome(o) >>
check_access_effects(pol, perms, ctx, order, r, q) ==
  LET o == check_access(pol, perms, ctx, order, r, q)
  IN  CASE o = "return_True" ->
             log_event(audit_access_attempt(ctx, r, q, "success", NoDetails))
               \o << Outcome(o) >>
        [] o = "return_False" ->
             log_event(audit_access_attempt(ctx, r, q, "failure",
                         [reason |-> "insufficient_permissions"]))
               \o << Outcome(o) >>
        [] o = "raise_SecurityViolation" ->
             log_event(audit_access_attempt(ctx, r, q, "failure",
                         [reason |-> "insufficient_security_level"]))
               \o << Outcome(o) >>

\* ------------------------------------------------------- SecurityManager calls
\* Optional[...]: None, or a value
None == [some |-> FALSE]
Some(v) == [some |-> TRUE, value |-> v]

\* get_security_level, lines 162-164: dict.get
get_security_level_setdefault(pol, r) ==
  [result |-> IF r \in DOMAIN pol THEN Some(pol[r]) ELSE Some(LOW),
   security_policies |-> IF r \in DOMAIN pol THEN pol ELSE Put(pol, r, LOW)]
get_security_level(pol, r) ==
  [result |-> IF r \in DOMAIN pol THEN Some(pol[r]) ELSE None,
   security_policies |-> pol]

\* get_role_permissions, lines 166-172: .get(role, {}).get(resource_id)
get_role_permissions(perms, role, r) ==
  [result |-> IF role \in DOMAIN perms /\ r \in DOMAIN perms[role]
              THEN Some(perms[role][r]) ELSE None,
   role_permissions |-> perms]

\* set_security_policy, lines 26-50
set_security_policy_quiet_repeat(r, level) ==
  /\ nPolicyOps < MaxPolicyOps
  /\ security_policies' = Put(security_policies, r, level)
  /\ nPolicyOps' = nPolicyOps + 1
  /\ ret' = [op |-> "set_security_policy", resource_id |-> r, level |-> level,
             previous |-> get_security_level(security_policies, r).result,
             effects |-> IF r \in DOMAIN security_policies /\ security_policies[r] = level
                         THEN << >>
                         ELSE log_event(log_policy_change("SYSTEM", r,
                                "set_security_policy",
                                [security_level |-> SecurityLevelName[level]]))]
  /\ UNCHANGED role_permissions
set_security_policy(r, level) ==
  /\ nPolicyOps < MaxPolicyOps
  /\ security_policies' = Put(security_policies, r, level)
  /\ nPolicyOps' = nPolicyOps + 1
  /\ ret' = [op |-> "set_security_policy", resource_id |-> r, level |-> level,
             previous |-> get_security_level(security_policies, r).result,
             effects |-> log_event(log_policy_change("SYSTEM", r, "set_security_policy",
                              [security_level |-> SecurityLevelName[level]]))]
  /\ UNCHANGED role_permissions

set_role_permissions_keep_highest(role, r, right) ==
  /\ nPolicyOps < MaxPolicyOps
  /\ role_permissions' =
       Put(role_permissions, role,
           Put(IF role \in DOMAIN role_permissions
               THEN role_permissions[role] ELSE EmptyMap, r,
               IF /\ role \in DOMAIN role_permissions
                  /\ r \in DOMAIN role_permissions[role]
                  /\ role_permissions[role][r] > right
               THEN role_permissions[role][r] ELSE right))
  /\ nPolicyOps' = nPolicyOps + 1
  /\ ret' = [op |-> "set_role_permissions", role |-> role, resource_id |-> r,
             access_right |-> right,
             previous |-> get_role_permissions(role_permissions, role, r).result,
             effects |-> log_event(log_policy_change("SYSTEM", r, "set_role_permissions",
                              [role |-> role,
                               access_right |-> AccessRightName[right]]))]
  /\ UNCHANGED security_policies
set_role_permissions(role, r, right) ==
  /\ nPolicyOps < MaxPolicyOps
  /\ role_permissions' =
       Put(role_permissions, role,
           Put(IF role \in DOMAIN role_permissions
               THEN role_permissions[role] ELSE EmptyMap, r, right))
  /\ nPolicyOps' = nPolicyOps + 1
  /\ ret' = [op |-> "set_role_permissions", role |-> role, resource_id |-> r,
             access_right |-> right,
             previous |-> get_role_permissions(role_permissions, role, r).result,
             effects |-> log_event(log_policy_change("SYSTEM", r, "set_role_permissions",
                              [role |-> role,
                               access_right |-> AccessRightName[right]]))]
  /\ UNCHANGED security_policies

\* check_access and the two getters change neither policy map, so a second
\* observation in a row reaches no policy state that the first did not: one
\* observation is explored per state.
FreshObservation ==
  ret.op \notin {"check_access", "get_security_level", "get_role_permissions"}

CheckAccessCall(ctx, order, r, q) ==
  /\ FreshObservation
  /\ ret' = [op |-> "check_access", context |-> ctx, resource_id |-> r,
             required_right |-> q,
             outcome |-> check_access(security_policies, role_permissions,
                                      ctx, order, r, q),
             effects |-> check_access_effects(security_policies, role_permissions,
                                              ctx, order, r, q)]
  /\ UNCHANGED <<smVars, ssVars, notSM>>

NoCall == [op |-> "none"]
Idle == [pc |-> "idle"]
NoThread == "none"
Threads == {"t1", "t2", "t3"}

\* SecurityManager.__init__, lines 19-24
InitManager ==
  /\ security_policies = EmptyMap
  /\ role_permissions = EmptyMap
  /\ nPolicyOps = 0
  /\ rd = Idle

\* RateLimiter.__init__, lines 36-42
InitLimiter ==
  /\ requests = EmptyMap
  /\ blocks = EmptyMap
  /\ nCalls = 0
  /\ lock = NoThread
  /\ th = [t \in Threads |-> Idle]
  /\ pos = 1
  /\ outs = <<>>

\* the wrapped Property element as the test fixtures build it (value 25.5)
InitValue == 25
InitElement == value = InitValue

\* SessionManager.__init__, lines 53-60: the lock is free, the cleanup thread
\* is started and sleeps; no foreground thread is inside get_session
InitSweeper ==
  /\ ss_lock = NoThread
  /\ sweep = [pc |-> "sleep", now |-> 0, expired |-> {}]
  /\ gs = Idle

\* AuditLog(): a new log stores no event
InitAuditLog == events = << >>

\* SessionManager.__init__, lines 49-60
InitSessions ==
  /\ sessions = EmptyMap
  /\ user_sessions = EmptyMap
  /\ nCreated = 0

InitSM ==
  /\ InitManager
  /\ InitLimiter
  /\ InitSessions
  /\ InitAuditLog
  /\ InitElement
  /\ InitSweeper
  /\ session_timeout = 30
  /\ limits = EmptyMap
  /\ clock = 0
  /\ ret = NoCall

SetSecurityPolicyCall(r, level) ==
  set_security_policy(r, level) /\ UNCHANGED <<rd, notSM>>
GetSecurityLevelCall(r) ==
  /\ FreshObservation
  /\ LET g == get_security_level(security_policies, r)
     IN  /\ security_policies' = g.security_policies
         /\ ret' = [op |-> "get_security_level", resource_id |-> r,
                    result |-> g.result, effects |-> << >>]
  /\ UNCHANGED <<role_permissions, nPolicyOps, rd, notSM>>
GetRolePermissionsCall(role, r) ==
  /\ FreshObservation
  /\ LET g == get_role_permissions(role_permissions, role, r)
     IN  /\ role_permissions' = g.role_permissions
         /\ ret' = [op |-> "get_role_permissions", role |-> role, resource_id |-> r,
                    result |-> g.result, effects |-> << >>]
  /\ UNCHANGED <<security_policies, nPolicyOps, rd, notSM>>
SetRolePermissionsCall(role, r, right) ==
  set_role_permissions(role, r, right) /\ UNCHANGED <<rd, notSM>>

NextSM ==
  \/ \E r \in Resources, level \in SecurityLevel : SetSecurityPolicyCall(r, level)
  \/ \E role \in Roles, r \in Resources, right \in AccessRight :
       SetRolePermissionsCall(role, r, right)
  \/ \E ctx \in Contexts, r \in Resources, q \in AccessRight :
       \E order \in Orders(ctx.roles) : CheckAccessCall(ctx, order, r, q)
  \/ \E r \in Resources : GetSecurityLevelCall(r)
  \/ \E role \in Roles, r \in Resources : GetRolePermissionsCall(role, r)

Spec == InitSM /\ [][NextSM]_vars

\* ------------------------------- SecurityManager, the audit sink may fail
\* audit.py:44-62 and 75-83: every record goes through logger.info / logger.warning
\* to the FileHandler of "security_audit.log". A handler's emit catches the
\* exception of a failed write and hands it to handleError, which reports on
\* stderr and returns: the record is lost and nothing is raised to log_event.

SinkResources == {"r1"}

emit_propagates(record, sink_ok) ==
  [raised |-> ~sink_ok, written |-> IF sink_ok THEN << record >> ELSE << >>]
emit(record, sink_ok) ==
  [raised |-> FALSE, written |-> IF sink_ok THEN << record >> ELSE << >>]

\* the records of one call, written one after the other; an exception raised by
\* a write would leave log_event, the audit helper and the manager's method
\* (no handler on the way catches anything but SecurityViolation)
RECURSIVE through_sink(_, _)
through_sink(effects, sink_ok) ==
  IF effects = << >> THEN << >>
  ELSE IF Head(effects).kind = "outcome" THEN effects
  ELSE LET w == emit(Head(effects), sink_ok)
       IN  IF w.raised THEN << Outcome("raise_OSError") >>
           ELSE w.written \o through_sink(Tail(effects), sink_ok)

\* set_security_policy, lines 26-50: the map is assigned before the audit call
SetSecurityPolicySinkCall(r, level, sink_ok) ==
  /\ nPolicyOps < MaxPolicyOps
  /\ security_policies' = Put(security_policies, r, level)
  /\ nPolicyOps' = nPolicyOps + 1
  /\ ret' = [op |-> "set_security_policy", resource_id |-> r, level |-> level,
             sink_ok |-> sink_ok,
             effects |-> through_sink(
                           log_event(log_policy_change("SYSTEM", r, "set_security_policy",
                                       [security_level |-> SecurityLevelName[level]])),
                           sink_ok)]
  /\ UNCHANGED <<role_permissions, rd, notSM>>

\* set_role_permissions, lines 52-81: the map is assigned before the audit call
SetRolePermissionsSinkCall(role, r, right, sink_ok) ==
  /\ nPolicyOps < MaxPolicyOps
  /\ role_permissions' =
       Put(role_permissions, role,
           Put(IF role \in DOMAIN role_permissions
               THEN role_permissions[role] ELSE EmptyMap, r, right))
  /\ nPolicyOps' = nPolicyOps + 1
  /\ ret' = [op |-> "set_role_permissions", role |-> role, resource_id |-> r,
             access_right |-> right, sink_ok |-> sink_ok,
             effects |-> through_sink(
                           log_event(log_policy_change("SYSTEM", r, "set_role_permissions",
                                       [role |-> role,
                                        access_right |-> AccessRightName[right]])),
                           sink_ok)]
  /\ UNCHANGED <<security_policies, rd, notSM>>

\* check_access, lines 83-143, with the sink healthy or failing
CheckAccessSinkCall(ctx, order, r, q, sink_ok) ==
  /\ FreshObservation
  /\ ret' = [op |-> "check_access", context |-> ctx, resource_id |-> r,
             required_right |-> q, sink_ok |-> sink_ok,
             effects |-> through_sink(
                           check_access_effects(security_policies, role_permissions,
                                                ctx, order, r, q),
                           sink_ok)]
  /\ UNCHANGED <<smVars, notSM>>

NextSink ==
  \/ \E r \in SinkResources, level \in SecurityLevel, sink_ok \in BOOLEAN :
       SetSecurityPolicySinkCall(r, level, sink_ok)
  \/ \E role \in Roles, r \in SinkResources, right \in AccessRight, sink_ok \in BOOLEAN :
       SetRolePermissionsSinkCall(role, r, right, sink_ok)
  \/ \E ctx \in Contexts, r \in SinkResources, q \in AccessRight, sink_ok \in BOOLEAN :
       \E order \in Orders(ctx.roles) : CheckAccessSinkCall(ctx, order, r, q, sink_ok)

SpecSink == InitSM /\ [][NextSink]_vars

\* ----------------------- SecurityManager, contexts with all their fields
\* security_context.py:11-27: a SecurityContext also carries a timestamp and an
\* optional token; callers differ in user_id too.
CheckAccessFullCall(ctx, order, r, q) ==
  /\ FreshObservation
  /\ ret' = [op |-> "check_access", context |-> ctx, resource_id |-> r,
             required_right |-> q,
             outcome |-> check_access(security_policies, role_permissions,
                                      ctx, order, r, q),
             effects |-> check_access_effects(security_policies, role_permissions,
                                              ctx, order, r, q)]
  /\ UNCHANGED <<smVars, notSM>>

NextFull ==
  \/ \E r \in SinkResources, level \in SecurityLevel : SetSecurityPolicyCall(r, level)
  \/ \E role \in Roles, r \in SinkResources, right \in AccessRight :
       SetRolePermissionsCall(role, r, right)
  \/ \E ctx \in [user_id : {"u1", "u2"}, roles : SUBSET Roles,
                  security_level : {LOW, HIGH}, timestamp : {0, 1},
                  token : {None, Some("token")}],
        r \in SinkResources, q \in AccessRight :
       \E order \in Orders(ctx.roles) : CheckAccessFullCall(ctx, order, r, q)

SpecFull == InitSM /\ [][NextFull]_vars

\* ------------------------------------- SecurityManager, two threads
\* SecurityManager holds no lock (security_manager.py:19-24): a thread running
\* check_access reads _security_policies (line 105) and then, once per role,
\* _role_permissions (line 115), and administrative calls of another thread
\* can run between two of these reads.  rd is the reading thread:
\*   pc = "level" : about to run the clearance gate
\*   pc = "roles" : in the loop, about to look at order[i]
\*   pc = "done"  : returned or raised, the outcome in rd.outcome
\* rd.seen collects the outcome check_access has on each policy state that
\* existed at some instant between the call's start and its return.

Observe(pol, perms) ==
  IF rd.pc \in {"level", "roles"}
  THEN [rd EXCEPT !.seen = @ \cup {check_access(pol, perms, rd.context, rd.order,
                                                 rd.resource_id, rd.required_right)}]
  ELSE rd

RdStart(ctx, order, r, q) ==
  /\ rd.pc = "idle"
  /\ rd' = [pc |-> "level", context |-> ctx, order |-> order, resource_id |-> r,
            required_right |-> q, i |-> 1, outcome |-> "pending",
            seen |-> {check_access(security_policies, role_permissions,
                                   ctx, order, r, q)}]
  /\ UNCHANGED <<security_policies, role_permissions, nPolicyOps, ret, notSM>>

RdLevel ==
  /\ rd.pc = "level"
  /\ rd' = IF ClearanceViolation(security_policies, rd.context.security_level,
                                 rd.resource_id)
           THEN [rd EXCEPT !.pc = "done", !.outcome = "raise_SecurityViolation"]
           ELSE [rd EXCEPT !.pc = "roles"]
  /\ UNCHANGED <<security_policies, role_permissions, nPolicyOps, ret, notSM>>

RdRole ==
  /\ rd.pc = "roles"
  /\ rd' = IF rd.i > Len(rd.order)
           THEN [rd EXCEPT !.pc = "done", !.outcome = DeniedOutcome]
           ELSE IF RoleSatisfies(role_permissions, rd.order[rd.i], rd.resource_id,
                                 rd.required_right)
           THEN [rd EXCEPT !.pc = "done", !.outcome = "return_True"]
           ELSE [rd EXCEPT !.i = @ + 1]
  /\ UNCHANGED <<security_policies, role_permissions, nPolicyOps, ret, notSM>>

WrSetSecurityPolicy(r, level) ==
  /\ set_security_policy(r, level)
  /\ rd' = Observe(security_policies', role_permissions')
  /\ UNCHANGED notSM

WrSetRolePermissions(role, r, right) ==
  /\ set_role_permissions(role, r, right)
  /\ rd' = Observe(security_policies', role_permissions')
  /\ UNCHANGED notSM

NextSMConc ==
  \/ \E r \in Resources, level \in SecurityLevel : WrSetSecurityPolicy(r, level)
  \/ \E role \in Roles, r \in Resources, right \in AccessRight :
       WrSetRolePermissions(role, r, right)
  \* the reading thread's context: one user holding both roles or one of them
  \/ \E ctx \in {c \in Contexts : c.roles # {}}, r \in Resources, q \in AccessRight :
       \E order \in Orders(ctx.roles) : RdStart(ctx, order, r, q)
  \/ RdLevel
  \/ RdRole

SpecSMConc == InitSM /\ [][NextSMConc]_vars

\* -------------------------------------------------------------- RateLimiter
Clients == {"c1", "c2"}
Times == 0..MaxTime

\* check_rate_limit(..., current_time=None): no time supplied
NoTime == -1

\* RateLimit(requests, window_seconds, block_seconds) configurations in use
LimitChoices ==
  { [requests |-> 1, window_seconds |-> 1, block_seconds |-> 2],
    [requests |-> 2, window_seconds |-> 2, block_seconds |-> 1] }

\* defaultdict access d[k]: the key is created with the default when missing
Touch(d, k, default) == IF k \in DOMAIN d THEN d ELSE Put(d, k, default)

\* line 74: current_time = current_time or time.time()
EffectiveTimeAsGiven(t, wall) == IF t = NoTime THEN wall ELSE t
EffectiveTime(t, wall) == IF t = NoTime \/ t = 0 THEN wall ELSE t

\* lines 79-85: the block check.  raised: RateLimitExceeded(block_until - now)
BlockCheckInclusive(blks, r, c, now) ==
  LET b1 == Touch(blks, r, EmptyMap) IN
  IF c \in DOMAIN b1[r]
  THEN IF now <= b1[r][c]
       THEN [blocks |-> b1, raised |-> TRUE, wait_time |-> b1[r][c] - now]
       ELSE [blocks |-> Put(b1, r, Del(b1[r], c)), raised |-> FALSE, wait_time |-> 0]
  ELSE [blocks |-> b1, raised |-> FALSE, wait_time |-> 0]
BlockCheck(blks, r, c, now) ==
  LET b1 == Touch(blks, r, EmptyMap) IN
  IF c \in DOMAIN b1[r]
  THEN IF now < b1[r][c]
       THEN [blocks |-> b1, raised |-> TRUE, wait_time |-> b1[r][c] - now]
       ELSE [blocks |-> Put(b1, r, Del(b1[r], c)), raised |-> FALSE, wait_time |-> 0]
  ELSE [blocks |-> b1, raised |-> FALSE, wait_time |-> 0]

\* line 90: [t for t in requests if t > window_start]
KeepInclusive(ts, window_start) == SelectSeq(ts, LAMBDA t : t >= window_start)
Keep(ts, window_start) == SelectSeq(ts, LAMBDA t : t > window_start)

\* lines 88-91: eviction of the timestamps that left the window
Evict(reqs, lim, r, c, now) ==
  LET q1 == Touch(reqs, r, EmptyMap)
      q2 == Put(q1, r, Touch(q1[r], c, <<>>))
  IN  Put(q2, r, Put(q2[r], c, Keep(q2[r][c], now - lim.window_seconds)))

\* lines 94-100: over the limit, block and raise; otherwise record the request
LimitCheckBlocksAllClients(reqs, blks, lim, r, c, now) ==
  IF Len(reqs[r][c]) >= lim.requests
  THEN [requests |-> reqs,
        blocks |-> Put(blks, r, [x \in Clients |-> now + lim.block_seconds]),
        raised |-> TRUE, wait_time |-> lim.block_seconds]
  ELSE [requests |-> Put(reqs, r, Put(reqs[r], c, Append(reqs[r][c], now))),
        blocks |-> blks, raised |-> FALSE, wait_time |-> 0]
LimitCheckNoBlock(reqs, blks, lim, r, c, now) ==
  IF Len(reqs[r][c]) >= lim.requests
  THEN [requests |-> reqs, blocks |-> blks,
        raised |-> TRUE, wait_time |-> lim.block_seconds]
  ELSE [requests |-> Put(reqs, r, Put(reqs[r], c, Append(reqs[r][c], now))),
        blocks |-> blks, raised |-> FALSE, wait_time |-> 0]
LimitCheck(reqs, blks, lim, r, c, now) ==
  IF Len(reqs[r][c]) >= lim.requests
  THEN [requests |-> reqs,
        blocks |-> Put(blks, r, Put(blks[r], c, now + lim.block_seconds)),
        raised |-> TRUE, wait_time |-> lim.block_seconds]
  ELSE [requests |-> Put(reqs, r, Put(reqs[r], c, Append(reqs[r][c], now))),
        blocks |-> blks, raised |-> FALSE, wait_time |-> 0]

\* lines 77-100: the body of `with self._lock`, run to completion
CriticalSectionCountsRejected(reqs, blks, lim, r, c, now) ==
  LET b == BlockCheck(blks, r, c, now) IN
  IF b.raised
  THEN [requests |-> Put(reqs, r, Put(reqs[r], c, Append(reqs[r][c], now))),
        blocks |-> Put(b.blocks, r, Put(b.blocks[r], c, now + lim.block_seconds)),
        raised |-> TRUE, wait_time |-> b.wait_time, by |-> "block"]
  ELSE LET l == LimitCheck(Evict(reqs, lim, r, c, now), b.blocks, lim, r, c, now)
       IN  [requests |-> l.requests, blocks |-> l.blocks, raised |-> l.raised,
            wait_time |-> l.wait_time, by |-> "limit"]
CriticalSection(reqs, blks, lim, r, c, now) ==
  LET b == BlockCheck(blks, r, c, now) IN
  IF b.raised
  THEN [requests |-> reqs, blocks |-> b.blocks, raised |-> TRUE,
        wait_time |-> b.wait_time, by |-> "block"]
  ELSE LET l == LimitCheck(Evict(reqs, lim, r, c, now), b.blocks, lim, r, c, now)
       IN  [requests |-> l.requests, blocks |-> l.blocks, raised |-> l.raised,
            wait_time |-> l.wait_time, by |-> "limit"]

add_limit(r, lim) ==
  /\ limits' = Put(limits, r, lim)
  /\ ret' = [op |-> "add_limit", resource_id |-> r, limit |-> lim]
  /\ UNCHANGED <<requests, blocks, clock, nCalls>>

\* check_rate_limit(resource_id, client_id, current_time), lines 71-100
check_rate_limit(r, c, t) ==
  /\ IF r \notin DOMAIN limits
     THEN /\ ret' = [op |-> "check_rate_limit", resource_id |-> r, client_id |-> c,
                     current_time |-> t, limited |-> FALSE, raised |-> FALSE]
          /\ UNCHANGED <<requests, blocks>>
     ELSE LET now == EffectiveTime(t, clock)
              res == CriticalSection(requests, blocks, limits[r], r, c, now)
          IN  /\ requests' = res.requests
              /\ blocks' = res.blocks
              /\ ret' = [op |-> "check_rate_limit", resource_id |-> r,
                         client_id |-> c, current_time |-> t, limited |-> TRUE,
                         now |-> now, raised |-> res.raised,
                         wait_time |-> res.wait_time, by |-> res.by]
  /\ UNCHANGED <<limits, clock>>

\* time passes
Tick ==
  /\ clock < MaxTime
  /\ clock' = clock + 1
  /\ UNCHANGED ret

\* get_remaining_requests(resource_id, client_id), lines 117-131
get_remaining_requests(r, c) ==
  /\ IF r \notin DOMAIN limits
     THEN /\ ret' = [op |-> "get_remaining_requests", resource_id |-> r,
                     client_id |-> c, limited |-> FALSE]
          /\ UNCHANGED <<requests, blocks>>
     ELSE LET b1 == Touch(blocks, r, EmptyMap)
              q1 == Touch(requests, r, EmptyMap)
              q2 == Put(q1, r, Touch(q1[r], c, <<>>))
              recent == Len(Keep(q2[r][c], clock - limits[r].window_seconds))
              left == limits[r].requests - recent
          IN  /\ blocks' = b1
              /\ requests' = IF c \in DOMAIN b1[r] THEN requests ELSE q2
              /\ ret' = [op |-> "get_remaining_requests", resource_id |-> r,
                         client_id |-> c, limited |-> TRUE, now |-> clock,
                         value |-> IF c \in DOMAIN b1[r] THEN 0
                                   ELSE IF left > 0 THEN left ELSE 0]
  /\ UNCHANGED <<limits, clock, nCalls>>

\* line 77, `with self._lock`: entered only while no thread holds the lock
LockNotTaken == TRUE
LockFree == lock = NoThread

AddLimitCall(r, lim) == add_limit(r, lim) /\ UNCHANGED notRL
CheckRateLimitCall(r, c, t) ==
  /\ nCalls < MaxCalls
  /\ nCalls' = nCalls + 1
  /\ check_rate_limit(r, c, t)
  /\ UNCHANGED notRL
GetRemainingRequestsCall(r, c) == get_remaining_requests(r, c) /\ UNCHANGED notRL
TickRL == Tick /\ UNCHANGED <<notRL, limits, requests, blocks, nCalls>>

\* The limiter is exercised on one resource, by two clients
LimitedResources == {"r1"}

NextRL ==
  \/ \E r \in LimitedResources, lim \in LimitChoices : AddLimitCall(r, lim)
  \/ \E r \in LimitedResources, c \in Clients, t \in Times \cup {NoTime} :
       CheckRateLimitCall(r, c, t)
  \/ \E r \in LimitedResources, c \in Clients : GetRemainingRequestsCall(r, c)
  \/ TickRL

SpecRL == InitSM /\ [][NextRL]_vars

\* ------------------------------- RateLimiter, two resources and two clients
\* Every resource is given the same limit once, and calls carry no
\* current_time: the four (resource, client) pairs share one limiter.
AddIsoLimit(r) ==
  /\ r \notin DOMAIN limits
  /\ AddLimitCall(r, [requests |-> 1, window_seconds |-> 1, block_seconds |-> 2])

NextIso ==
  \/ \E r \in Resources : AddIsoLimit(r)
  \/ \E r \in Resources, c \in Clients : CheckRateLimitCall(r, c, NoTime)
  \/ TickRL

SpecIso == InitSM /\ [][NextIso]_vars

\* ------------------------------- RateLimiter, calls in non-decreasing time
\* One resource is given a limit once; a driver then calls check_rate_limit,
\* with or without a current_time, never with a time earlier than the time of
\* its previous call, and notes for each call the client, the time of the call
\* (the current_time it passed, or the wall clock when it passed none), the
\* time the call was evaluated at and whether it was admitted.
MonoResource == "r1"

GivenTime(t, wall) == IF t = NoTime THEN wall ELSE t

MonoAddLimit(lim) ==
  /\ MonoResource \notin DOMAIN limits
  /\ AddLimitCall(MonoResource, lim)

MonoCall(c, t) ==
  /\ MonoResource \in DOMAIN limits
  /\ GivenTime(t, clock) >= (IF outs = << >> THEN 0 ELSE outs[Len(outs)].time)
  /\ nCalls < MaxCalls
  /\ nCalls' = nCalls + 1
  /\ check_rate_limit(MonoResource, c, t)
  /\ outs' = Append(outs, [client_id |-> c, time |-> GivenTime(t, clock),
                            now |-> ret'.now, admitted |-> ~ret'.raised])
  /\ UNCHANGED <<smVars, cnVars, pos, ssVars, alVars, awVars, cvVars>>

NextMono ==
  \/ \E lim \in LimitChoices : MonoAddLimit(lim)
  \/ \E c \in Clients, t \in Times \cup {NoTime} : MonoCall(c, t)
  \/ TickRL

SpecMono == InitSM /\ [][NextMono]_vars

\* ------------------------------------- RateLimiter, concurrent callers
\* Threads call check_rate_limit(ConcResource, ConcClient) with no current_time.
\* A thread reads the clock and the limit before it takes the lock (lines
\* 71-75); the body of `with self._lock` (lines 77-100) is split at each read
\* and write of the shared state:
\*   "acquire" -> "block" -> "evict" -> "check" -> "install" | "record" -> "done"
ConcResource == "r1"
ConcClient == "c1"

ThAt(t, pc) == [th EXCEPT ![t].pc = pc]
ThDone(t, result, wait) ==
  [th EXCEPT ![t].pc = "done", ![t].result = result, ![t].wait_time = wait]

ThStart(t) ==
  /\ th[t].pc = "idle"
  /\ ConcResource \in DOMAIN limits
  /\ th' = [th EXCEPT ![t] = [pc |-> "acquire", now |-> EffectiveTime(NoTime, clock),
                              result |-> "pending", wait_time |-> 0]]
  /\ UNCHANGED <<smVars, ssVars, alVars, awVars, cvVars, rlVars, scVars, lock, ret>>

ThAcquire(t) ==
  /\ th[t].pc = "acquire"
  /\ LockFree
  /\ lock' = t
  /\ th' = ThAt(t, "block")
  /\ UNCHANGED <<smVars, ssVars, alVars, awVars, cvVars, rlVars, scVars, ret>>

ThBlock(t) ==
  /\ th[t].pc = "block"
  /\ LET b == BlockCheck(blocks, ConcResource, ConcClient, th[t].now)
     IN  /\ blocks' = b.blocks
         /\ IF b.raised
            THEN /\ th' = ThDone(t, "raised", b.wait_time)
                 /\ lock' = NoThread
            ELSE /\ th' = ThAt(t, "evict")
                 /\ UNCHANGED lock
  /\ UNCHANGED <<smVars, ssVars, alVars, awVars, cvVars, scVars, limits, requests, clock, nCalls, ret>>

ThEvict(t) ==
  /\ th[t].pc = "evict"
  /\ requests' = Evict(requests, limits[ConcResource], ConcResource, ConcClient,
                       th[t].now)
  /\ th' = ThAt(t, "check")
  /\ UNCHANGED <<smVars, ssVars, alVars, awVars, cvVars, scVars, limits, blocks, clock, nCalls, lock, ret>>

\* line 94: len(requests) >= limit.requests
ThCheck(t) ==
  /\ th[t].pc = "check"
  /\ th' = ThAt(t, IF Len(requests[ConcResource][ConcClient])
                        >= limits[ConcResource].requests
                   THEN "install" ELSE "record")
  /\ UNCHANGED <<smVars, ssVars, alVars, awVars, cvVars, rlVars, scVars, lock, ret>>

\* lines 96-97: block the client and raise
ThInstall(t) ==
  /\ th[t].pc = "install"
  /\ blocks' = Put(blocks, ConcResource,
                   Put(blocks[ConcResource], ConcClient,
                       th[t].now + limits[ConcResource].block_seconds))
  /\ th' = ThDone(t, "raised", limits[ConcResource].block_seconds)
  /\ lock' = NoThread
  /\ UNCHANGED <<smVars, ssVars, alVars, awVars, cvVars, scVars, limits, requests, clock, nCalls, ret>>

\* line 100: record the request and return
ThRecord(t) ==
  /\ th[t].pc = "record"
  /\ requests' = Put(requests, ConcResource,
                     Put(requests[ConcResource], ConcClient,
                         Append(requests[ConcResource][ConcClient], th[t].now)))
  /\ th' = ThDone(t, "admitted", 0)
  /\ lock' = NoThread
  /\ UNCHANGED <<smVars, ssVars, alVars, awVars, cvVars, scVars, limits, blocks, clock, nCalls, ret>>

InitRLConc ==
  /\ InitManager
  /\ InitLimiter
  /\ InitSessions
  /\ InitAuditLog
  /\ InitElement
  /\ InitSweeper
  /\ session_timeout = 30
  /\ \E lim \in LimitChoices \cup
                    {[requests |-> 1, window_seconds |-> 2, block_seconds |-> 1]} :
        limits = Put(EmptyMap, ConcResource, lim)
  /\ clock = 0
  /\ ret = NoCall

NextRLConc ==
  \/ \E t \in Threads : ThStart(t)
  \/ \E t \in Threads : ThAcquire(t)
  \/ \E t \in Threads : ThBlock(t)
  \/ \E t \in Threads : ThEvict(t)
  \/ \E t \in Threads : ThCheck(t)
  \/ \E t \in Threads : ThInstall(t)
  \/ \E t \in Threads : ThRecord(t)
  \/ TickRL

SpecRLConc == InitRLConc /\ [][NextRLConc]_vars

\* ------------------------------------- RateLimiter, the scripted scenario
\* test_rate_limiter's limit, RateLimit(requests=2, window_seconds=1,
\* block_seconds=2), and calls at t = 0, 0, 0.1, 0.1, 2.2 with the time passed
\* as current_time.  The unit of time of this scenario is 0.1 s.
Scenario ==
  << [client_id |-> "c1", current_time |-> 0],
     [client_id |-> "c1", current_time |-> 0],
     [client_id |-> "c1", current_time |-> 1],
     [client_id |-> "c2", current_time |-> 1],
     [client_id |-> "c1", current_time |-> 22] >>

ScenarioCall ==
  /\ pos <= Len(Scenario)
  /\ check_rate_limit(ConcResource, Scenario[pos].client_id,
                      Scenario[pos].current_time)
  /\ outs' = Append(outs, [raised |-> ret'.raised, wait_time |-> ret'.wait_time])
  /\ pos' = pos + 1
  /\ UNCHANGED <<smVars, ssVars, alVars, awVars, cvVars, cnVars, nCalls>>

\* the wall clock, time.time(), runs on while the scenario is played
ScenarioTick ==
  /\ clock < MaxWall
  /\ clock' = clock + 1
  /\ UNCHANGED <<smVars, ssVars, alVars, awVars, cvVars, cnVars, scVars, limits, requests, blocks, nCalls, ret>>

InitScenario ==
  /\ InitManager
  /\ InitLimiter
  /\ InitSessions
  /\ InitAuditLog
  /\ InitElement
  /\ InitSweeper
  /\ session_timeout = 30
  /\ limits = Put(EmptyMap, ConcResource,
                  [requests |-> 2, window_seconds |-> 10, block_seconds |-> 20])
  /\ clock \in 0..MaxWall
  /\ ret = NoCall

NextScenario ==
  \/ ScenarioCall
  \/ ScenarioTick

SpecScenario == InitScenario /\ [][NextScenario]_vars

\* ----------------------------------------------------------- SessionManager
\* session ids: uuid4 values, modelled as the numbers 1, 2, ...; one id more
\* than can be created, so that an id no session ever had can be asked for
SessionIds == 1..(MaxSessions + 1)
SessionUsers == {"u1", "u2"}
SessionRoles == {{"admin"}}
\* create_session(..., session_duration): None, or a timedelta
NoDuration == [some |-> FALSE]
DurationArgs == {NoDuration} \cup {[some |-> TRUE, value |-> d] : d \in {-1, 0, 3}}

\* line 113: now > session.expires_at
ExpiredInclusive(now, session) == now >= session.expires_at
Expired(now, session) == now > session.expires_at

\* _remove_session, lines 146-157
remove_session_keep_entry(ss, us, sid) ==
  LET user == ss[sid].user_id
  IN  [sessions |-> IF sid \in DOMAIN ss THEN Del(ss, sid) ELSE ss,
       user_sessions |-> IF user \in DOMAIN us
                         THEN Put(us, user, us[user] \ {sid})
                         ELSE us]
remove_session(ss, us, sid) ==
  LET user == ss[sid].user_id
      ss1 == IF sid \in DOMAIN ss THEN Del(ss, sid) ELSE ss
      us1 == IF user \in DOMAIN us
             THEN IF us[user] \ {sid} = {}
                  THEN Del(us, user)
                  ELSE Put(us, user, us[user] \ {sid})
             ELSE us
  IN  [sessions |-> ss1, user_sessions |-> us1]

\* removal of several sessions, one _remove_session after the other
RECURSIVE remove_all(_, _, _)
remove_first(ss, us, sids) ==
  IF sids = {} THEN [sessions |-> ss, user_sessions |-> us]
  ELSE LET sid == CHOOSE x \in sids : TRUE
       IN  IF sid \in DOMAIN ss THEN remove_session(ss, us, sid)
           ELSE [sessions |-> ss, user_sessions |-> us]
remove_all(ss, us, sids) ==
  IF sids = {} THEN [sessions |-> ss, user_sessions |-> us]
  ELSE LET sid == CHOOSE x \in sids : TRUE
           one == IF sid \in DOMAIN ss THEN remove_session(ss, us, sid)
                  ELSE [sessions |-> ss, user_sessions |-> us]
       IN  remove_all(one.sessions, one.user_sessions, sids \ {sid})

\* line 81, str(uuid.uuid4()): an id that was never handed out before
NewSessionId(created) == created + 1

\* create_session, lines 62-95
create_session(sid, user, roles, d) ==
  /\ nCreated < MaxSessions
  /\ nCreated' = nCreated + 1
  /\ sid = NewSessionId(nCreated)
  /\ LET session == [session_id |-> sid, user_id |-> user, roles |-> roles,
                     created_at |-> clock,
                     \* line 85: session_duration or self._session_timeout
                     expires_at |-> clock + (IF ~d.some \/ d.value = 0
                                             THEN session_timeout ELSE d.value),
                     last_accessed |-> clock]
     IN  /\ sessions' = Put(sessions, sid, session)
         /\ user_sessions' =
              Put(user_sessions, user,
                  (IF user \in DOMAIN user_sessions THEN user_sessions[user] ELSE {})
                    \cup {sid})
         /\ ret' = [op |-> "create_session", session_id |-> sid, now |-> clock,
                    session |-> session]
  /\ UNCHANGED <<session_timeout, clock>>

\* get_session, lines 107-120: the renewal of a valid session
RenewedFromExpiry(session, now, timeout) ==
  [session EXCEPT !.last_accessed = now, !.expires_at = @ + timeout]
Renewed(session, now, timeout) ==
  [session EXCEPT !.last_accessed = now, !.expires_at = now + timeout]

\* get_session, lines 97-120
get_session(sid) ==
  /\ IF sid \notin DOMAIN sessions
     THEN /\ ret' = [op |-> "get_session", session_id |-> sid, now |-> clock,
                     found |-> FALSE, stored |-> "absent"]
          /\ UNCHANGED <<sessions, user_sessions>>
     ELSE IF Expired(clock, sessions[sid])
     THEN LET rm == remove_session(sessions, user_sessions, sid)
          IN  /\ sessions' = rm.sessions
              /\ user_sessions' = rm.user_sessions
              /\ ret' = [op |-> "get_session", session_id |-> sid, now |-> clock,
                         found |-> FALSE, stored |-> "expired"]
     ELSE /\ sessions' = Put(sessions, sid,
                             Renewed(sessions[sid], clock, session_timeout))
          /\ ret' = [op |-> "get_session", session_id |-> sid, now |-> clock,
                     found |-> TRUE, stored |-> "valid",
                     session |-> sessions'[sid]]
          /\ UNCHANGED user_sessions
  /\ UNCHANGED <<session_timeout, clock, nCreated>>

\* what a call finds stored under a session id
StoredAs(ss, sid, now) ==
  IF sid \notin DOMAIN ss THEN "absent"
  ELSE IF now > ss[sid].expires_at THEN "expired" ELSE "valid"

\* invalidate_session, lines 122-131
invalidate_session_if_valid(sid) ==
  /\ LET rm == IF sid \in DOMAIN sessions /\ ~Expired(clock, sessions[sid])
               THEN remove_session(sessions, user_sessions, sid)
               ELSE [sessions |-> sessions, user_sessions |-> user_sessions]
     IN  /\ sessions' = rm.sessions
         /\ user_sessions' = rm.user_sessions
  /\ ret' = [op |-> "invalidate_session", stored |-> StoredAs(sessions, sid, clock)]
  /\ UNCHANGED <<session_timeout, clock, nCreated>>
invalidate_session(sid) ==
  /\ LET rm == IF sid \in DOMAIN sessions
               THEN remove_session(sessions, user_sessions, sid)
               ELSE [sessions |-> sessions, user_sessions |-> user_sessions]
     IN  /\ sessions' = rm.sessions
         /\ user_sessions' = rm.user_sessions
  /\ ret' = [op |-> "invalidate_session", stored |-> StoredAs(sessions, sid, clock)]
  /\ UNCHANGED <<session_timeout, clock, nCreated>>

\* invalidate_user_sessions, lines 133-144
invalidate_user_sessions(user) ==
  /\ LET rm == IF user \in DOMAIN user_sessions /\ user_sessions[user] # {}
               THEN remove_all(sessions, user_sessions, user_sessions[user])
               ELSE [sessions |-> sessions, user_sessions |-> user_sessions]
     IN  /\ sessions' = rm.sessions
         /\ user_sessions' = rm.user_sessions
  /\ ret' = [op |-> "invalidate_user_sessions",
             removed |-> Cardinality(DOMAIN sessions \ DOMAIN sessions')]
  /\ UNCHANGED <<session_timeout, clock, nCreated>>

\* line 168: now > session.expires_at
SweepExpiredLate(now, session) == now > session.expires_at + 1
SweepExpired(now, session) == now > session.expires_at

\* _cleanup_expired_sessions, lines 164-171: one pass of the background thread
cleanup_expired_sessions ==
  /\ LET expired == {sid \in DOMAIN sessions : SweepExpired(clock, sessions[sid])}
         rm == remove_all(sessions, user_sessions, expired)
     IN  /\ sessions' = rm.sessions
         /\ user_sessions' = rm.user_sessions
  /\ ret' = [op |-> "cleanup",
             removed |-> Cardinality(DOMAIN sessions \ DOMAIN sessions')]
  /\ UNCHANGED <<session_timeout, clock, nCreated>>

notSS == <<smVars, rlVars, cnVars, scVars, alVars, awVars, cvVars>>
notSSButClock == <<smVars, cnVars, scVars, alVars, awVars, cvVars, limits, requests, blocks, nCalls>>

CreateSessionCall(sid, user, roles, d) ==
  create_session(sid, user, roles, d) /\ UNCHANGED notSSButClock
GetSessionCall(sid) == get_session(sid) /\ UNCHANGED notSSButClock
InvalidateSessionCall(sid) == invalidate_session(sid) /\ UNCHANGED notSSButClock
InvalidateUserSessionsCall(user) ==
  invalidate_user_sessions(user) /\ UNCHANGED notSSButClock
CleanupPass == cleanup_expired_sessions /\ UNCHANGED notSSButClock
TickSS == Tick /\ UNCHANGED <<notSSButClock, ssVars>>

InitSS ==
  /\ InitManager
  /\ InitLimiter
  /\ InitSessions
  /\ InitAuditLog
  /\ InitElement
  /\ InitSweeper
  /\ session_timeout = 2
  /\ limits = EmptyMap
  /\ clock = 0
  /\ ret = NoCall

NextSS ==
  \/ \E sid \in SessionIds, user \in SessionUsers, roles \in SessionRoles,
        d \in DurationArgs : CreateSessionCall(sid, user, roles, d)
  \/ \E sid \in SessionIds : GetSessionCall(sid)
  \/ \E sid \in SessionIds : InvalidateSessionCall(sid)
  \/ \E user \in SessionUsers : InvalidateUserSessionsCall(user)
  \/ CleanupPass
  \/ TickSS

SpecSS == InitSS /\ [][NextSS]_vars

\* The sweep's progress is checked on managers that create at most
\* MaxSweepSessions sessions, all of one user.
SweepUsers == {"u1"}

CreateSweepSession(sid, user, roles, d) ==
  nCreated < MaxSweepSessions /\ CreateSessionCall(sid, user, roles, d)

NextSweep ==
  \/ \E sid \in SessionIds, user \in SweepUsers, roles \in SessionRoles,
        d \in DurationArgs : CreateSweepSession(sid, user, roles, d)
  \/ \E sid \in SessionIds : GetSessionCall(sid)
  \/ \E sid \in SessionIds : InvalidateSessionCall(sid)
  \/ \E user \in SweepUsers : InvalidateUserSessionsCall(user)
  \/ CleanupPass
  \/ TickSS

\* lines 55-60 and 161-164: the daemon thread loops forever, sleeping and then
\* taking the lock for one pass; every foreground call releases the lock
SpecSweep == InitSS /\ [][NextSweep]_vars /\ WF_vars(CleanupPass)

\* ------------------------- SessionManager, the sweep against get_session
\* The cleanup thread and a foreground get_session, each split at its reads and
\* writes of the shared state; both bodies run inside `with self._lock`
\* (session.py:106 and :164).
\*   sweeper: "sleep" -> "now" -> "collect" -> "remove" ... -> "sleep"
\*   getter:  "idle" -> "lookup" -> "now" -> "check" -> "idle"

\* `with self._lock`: entered only while no thread holds the lock
SessionLockNotTaken == TRUE
SessionLockFree == ss_lock = NoThread

\* _remove_session(session), lines 146-157, given the Session object
remove_session_object(ss, us, sid, user) ==
  LET ss1 == IF sid \in DOMAIN ss THEN Del(ss, sid) ELSE ss
      us1 == IF user \in DOMAIN us
             THEN IF us[user] \ {sid} = {}
                  THEN Del(us, user)
                  ELSE Put(us, user, us[user] \ {sid})
             ELSE us
  IN  [sessions |-> ss1, user_sessions |-> us1]

notCV == <<smVars, rlVars, cnVars, scVars, alVars, awVars, session_timeout, nCreated>>

\* lines 162-164: the sleep is over and the lock is taken
SweepAcquire ==
  /\ sweep.pc = "sleep"
  /\ SessionLockFree
  /\ ss_lock' = "sweeper"
  /\ sweep' = [sweep EXCEPT !.pc = "now"]
  /\ UNCHANGED <<notCV, sessions, user_sessions, gs, ret>>

\* line 165: now = datetime.utcnow()
SweepReadNow ==
  /\ sweep.pc = "now"
  /\ sweep' = [sweep EXCEPT !.pc = "collect", !.now = clock]
  /\ UNCHANGED <<notCV, sessions, user_sessions, ss_lock, gs, ret>>

\* lines 166-169: the list of the Session objects with now > expires_at
SweepCollect ==
  /\ sweep.pc = "collect"
  /\ sweep' = [sweep EXCEPT !.pc = "remove",
                 !.expired = {[session_id |-> sid, user_id |-> sessions[sid].user_id] :
                                sid \in {x \in DOMAIN sessions :
                                           SweepExpired(sweep.now, sessions[x])}}]
  /\ UNCHANGED <<notCV, sessions, user_sessions, ss_lock, gs, ret>>

\* lines 170-171: one iteration of `for session in expired`, in dictionary order
SweepRemove ==
  /\ sweep.pc = "remove"
  /\ sweep.expired # {}
  /\ LET e == CHOOSE x \in sweep.expired :
                \A y \in sweep.expired : x.session_id <= y.session_id
         rm == remove_session_object(sessions, user_sessions, e.session_id, e.user_id)
     IN  /\ sessions' = rm.sessions
         /\ user_sessions' = rm.user_sessions
         /\ sweep' = [sweep EXCEPT !.expired = @ \ {e}]
         /\ ret' = [op |-> "sweep_remove", session_id |-> e.session_id, now |-> sweep.now]
  /\ UNCHANGED <<notCV, ss_lock, gs>>

\* the end of the `with` block: the lock is released and the thread sleeps again
SweepRelease ==
  /\ sweep.pc = "remove"
  /\ sweep.expired = {}
  /\ ss_lock' = NoThread
  /\ sweep' = [sweep EXCEPT !.pc = "sleep"]
  /\ UNCHANGED <<notCV, sessions, user_sessions, gs, ret>>

\* get_session, line 106: the lock is taken
GsAcquire(sid) ==
  /\ gs.pc = "idle"
  /\ SessionLockFree
  /\ ss_lock' = "getter"
  /\ gs' = [pc |-> "lookup", session_id |-> sid]
  /\ UNCHANGED <<notCV, sessions, user_sessions, sweep, ret>>

\* lines 107-109: session = self._sessions.get(session_id)
GsLookup ==
  /\ gs.pc = "lookup"
  /\ IF gs.session_id \in DOMAIN sessions
     THEN /\ gs' = [pc |-> "now", session_id |-> gs.session_id,
                    session |-> sessions[gs.session_id]]
          /\ UNCHANGED <<ss_lock, ret>>
     ELSE /\ gs' = Idle
          /\ ss_lock' = NoThread
          /\ ret' = [op |-> "get_session", session_id |-> gs.session_id, now |-> clock,
                     found |-> FALSE, stored |-> "absent"]
  /\ UNCHANGED <<notCV, sessions, user_sessions, sweep>>

\* line 111: now = datetime.utcnow()
GsReadNow ==
  /\ gs.pc = "now"
  /\ gs' = [pc |-> "check", session_id |-> gs.session_id, session |-> gs.session,
            now |-> clock]
  /\ UNCHANGED <<notCV, sessions, user_sessions, ss_lock, sweep, ret>>

\* lines 112-120: the expiry test, then the removal or the renewal of the
\* Session object the thread holds, and the release of the lock
GsCheck ==
  /\ gs.pc = "check"
  /\ LET sid == gs.session_id IN
     IF Expired(gs.now, gs.session)
     THEN LET rm == remove_session_object(sessions, user_sessions, sid,
                                          gs.session.user_id)
          IN  /\ sessions' = rm.sessions
              /\ user_sessions' = rm.user_sessions
              /\ ret' = [op |-> "get_session", session_id |-> sid, now |-> gs.now,
                         found |-> FALSE, stored |-> "expired"]
     ELSE LET renewed == Renewed(gs.session, gs.now, session_timeout)
          IN  /\ sessions' = IF sid \in DOMAIN sessions
                             THEN Put(sessions, sid, renewed) ELSE sessions
              /\ ret' = [op |-> "get_session", session_id |-> sid, now |-> gs.now,
                         found |-> TRUE, stored |-> "valid", session |-> renewed]
              /\ UNCHANGED user_sessions
  /\ gs' = Idle
  /\ ss_lock' = NoThread
  /\ UNCHANGED <<notCV, sweep>>

\* create_session, lines 76-95, as one step of a thread that found the lock free
CreateConcSession(sid, user, roles, d) ==
  /\ SessionLockFree
  /\ CreateSessionCall(sid, user, roles, d)

TickCV == Tick /\ UNCHANGED <<notSSButClock, ssVars>>

NextSSConc ==
  \/ \E sid \in SessionIds, user \in SweepUsers, roles \in SessionRoles,
        d \in {NoDuration, Some(3)} : CreateConcSession(sid, user, roles, d)
  \/ \E sid \in SessionIds : GsAcquire(sid)
  \/ GsLookup
  \/ GsReadNow
  \/ GsCheck
  \/ SweepAcquire
  \/ SweepReadNow
  \/ SweepCollect
  \/ SweepRemove
  \/ SweepRelease
  \/ TickCV

SpecSSConc == InitSS /\ [][NextSSConc]_vars

\* ------------------------------------------------------------- AAS wrappers
\* aas_wrapper/secure_aas.py, secure_submodel.py, secure_element.py, and the
\* SecureElement of sdk/basyx/security/aas_wrapper.py over the sdk's manager.
\* Every wrapper asks the manager about the id_short of the object it wraps;
\* id_shorts are unique only within their parent, so the element here carries
\* the id_short of the shell.

AasIdShort == "r1"
SubmodelIdShort == "r2"
ElementIdShort == "r1"

\* SecureAAS.__init__, lines 15-31, and SecureSubmodel.__init__, lines 17-24:
\* the wrapper dictionaries hold one submodel, {SubmodelIdShort}, and one
\* element, {ElementIdShort}.  Callers of the wrappers:
WrapperContexts == {c \in Contexts : c.security_level \in {LOW, HIGH}}

\* sdk/basyx/security/core.py:90-129: the sdk manager's check_access returns
\* False for both kinds of denial and defaults an unset level to LOW and an
\* unset grant to NONE
RECURSIVE sdk_role_loop(_, _, _, _, _)
sdk_role_loop(perms, order, i, r, q) ==
  IF i > Len(order) THEN "return_False"
  ELSE LET role == order[i]
           access_right ==
             IF role \in DOMAIN perms /\ r \in DOMAIN perms[role]
             THEN perms[role][r] ELSE NONE
       IN  IF \/ access_right = FULL
              \/ (q \in {READ, WRITE, EXECUTE} /\ access_right >= q)
           THEN "return_True"
           ELSE sdk_role_loop(perms, order, i + 1, r, q)
sdk_check_access(pol, perms, ctx, order, r, q) ==
  IF ctx.security_level < (IF r \in DOMAIN pol THEN pol[r] ELSE LOW)
  THEN "return_False"
  ELSE sdk_role_loop(perms, order, 1, r, q)

\* SecureElement.set_value, secure_element.py:38-53: `if not check_access(...):
\* raise SecurityViolation`, then the assignment; a SecurityViolation raised by
\* check_access itself leaves set_value before the assignment
set_value_unchecked(o, old, new) ==
  [outcome |-> IF o = "return_True" THEN "return_None" ELSE "raise_SecurityViolation",
   value |-> new]
set_value(o, old, new) ==
  IF o = "return_True"
  THEN [outcome |-> "return_None", value |-> new]
  ELSE [outcome |-> "raise_SecurityViolation", value |-> old]

\* SecureAAS.get_submodel, secure_aas.py:33-60, and SecureSubmodel.get_element,
\* secure_submodel.py:27-46: the check on the parent, then dict.get(child id)
wrapper_get_none_on_denial(o, children, child_id) ==
  IF o = "raise_SecurityViolation" THEN "raise_SecurityViolation"
  ELSE IF o = "return_True" /\ child_id \in children THEN "return_wrapper"
  ELSE "return_None"
wrapper_get(o, children, child_id) ==
  IF o # "return_True" THEN "raise_SecurityViolation"
  ELSE IF child_id \in children THEN "return_wrapper"
  ELSE "return_None"

FreshWrapperCall == ret.op \notin {"set_value", "get_submodel", "get_element"}

SetValueCall(ctx, order, new) ==
  /\ FreshWrapperCall
  /\ LET o == check_access(security_policies, role_permissions, ctx, order,
                           ElementIdShort, WRITE)
         s == set_value(o, value, new)
     IN  /\ value' = s.value
         /\ ret' = [op |-> "set_value", manager |-> "core", context |-> ctx,
                    new |-> new, before |-> value, check |-> o, outcome |-> s.outcome]
  /\ UNCHANGED <<smVars, rlVars, cnVars, scVars, ssVars, cvVars, alVars>>

\* sdk/basyx/security/aas_wrapper.py:47-69 (the element has a `value` and no
\* id_ or parent, so element_id is its id_short)
SdkSetValueCall(ctx, order, new) ==
  /\ FreshWrapperCall
  /\ LET o == sdk_check_access(security_policies, role_permissions, ctx, order,
                               ElementIdShort, WRITE)
         s == set_value(o, value, new)
     IN  /\ value' = s.value
         /\ ret' = [op |-> "set_value", manager |-> "sdk", context |-> ctx,
                    new |-> new, before |-> value, check |-> o, outcome |-> s.outcome]
  /\ UNCHANGED <<smVars, rlVars, cnVars, scVars, ssVars, cvVars, alVars>>

GetSubmodelCall(ctx, order, submodel_id) ==
  /\ FreshWrapperCall
  /\ LET o == check_access(security_policies, role_permissions, ctx, order,
                           AasIdShort, READ)
     IN  ret' = [op |-> "get_submodel", context |-> ctx, child_id |-> submodel_id,
                 check |-> o, outcome |-> wrapper_get(o, {SubmodelIdShort}, submodel_id)]
  /\ UNCHANGED <<smVars, rlVars, cnVars, scVars, ssVars, cvVars, alVars, awVars>>

GetElementCall(ctx, order, element_id) ==
  /\ FreshWrapperCall
  /\ LET o == check_access(security_policies, role_permissions, ctx, order,
                           SubmodelIdShort, READ)
     IN  ret' = [op |-> "get_element", context |-> ctx, child_id |-> element_id,
                 check |-> o, outcome |-> wrapper_get(o, {ElementIdShort}, element_id)]
  /\ UNCHANGED <<smVars, rlVars, cnVars, scVars, ssVars, cvVars, alVars, awVars>>

NextAW ==
  \/ \E r \in Resources, level \in SecurityLevel : SetSecurityPolicyCall(r, level)
  \/ \E role \in Roles, r \in Resources, right \in AccessRight :
       SetRolePermissionsCall(role, r, right)
  \/ \E ctx \in WrapperContexts, new \in {InitValue, 26} :
       \E order \in Orders(ctx.roles) : SetValueCall(ctx, order, new)
  \/ \E ctx \in WrapperContexts, new \in {InitValue, 26} :
       \E order \in Orders(ctx.roles) : SdkSetValueCall(ctx, order, new)
  \/ \E ctx \in WrapperContexts, submodel_id \in {"r1", "r2", "missing"} :
       \E order \in Orders(ctx.roles) : GetSubmodelCall(ctx, order, submodel_id)
  \/ \E ctx \in WrapperContexts, element_id \in {"r1", "r2", "missing"} :
       \E order \in Orders(ctx.roles) : GetElementCall(ctx, order, element_id)

SpecAW == InitSM /\ [][NextAW]_vars

\* ----------------------------------------------------------------- AuditLog
\* The class is imported by basyx_security/core/__init__.py and driven by
\* tests/test_security.py (test_audit_logging); its operations are modelled
\* from their description: an in-memory ordered sequence with an appending
\* log_event, a filtering get_events and a discarding clear.

LogUsers == {"u1", "u2"}
LogEventTypes == {"access_attempt", "policy_change"}

\* an AuditEvent as the log stores it: the fields get_events filters on
LoggedEvent(timestamp, event_type, user_id) ==
  [timestamp |-> timestamp, event_type |-> event_type, user_id |-> user_id]

\* the keyword arguments of get_events: each filter is absent (None) or a value
Filters ==
  [user_id : {None} \cup {Some(u) : u \in LogUsers},
   event_type : {None, Some("access_attempt"), Some("nonexistent")},
   start_time : {None, Some(1)}, end_time : {None, Some(2)}]

\* get_events: an event is returned when it passes every supplied filter
MatchesAnyFilter(f, e) ==
  \/ (~f.user_id.some /\ ~f.event_type.some /\ ~f.start_time.some /\ ~f.end_time.some)
  \/ (f.user_id.some /\ e.user_id = f.user_id.value)
  \/ (f.event_type.some /\ e.event_type = f.event_type.value)
  \/ (f.start_time.some /\ e.timestamp >= f.start_time.value)
  \/ (f.end_time.some /\ e.timestamp <= f.end_time.value)
Matches(f, e) ==
  /\ (f.user_id.some => e.user_id = f.user_id.value)
  /\ (f.event_type.some => e.event_type = f.event_type.value)
  /\ (f.start_time.some => e.timestamp >= f.start_time.value)
  /\ (f.end_time.some => e.timestamp <= f.end_time.value)

\* get_events: one pass over the stored events, collecting the matching ones
RECURSIVE get_events(_, _)
get_events(stored, f) ==
  IF stored = << >> THEN << >>
  ELSE (IF Matches(f, Head(stored)) THEN <<Head(stored)>> ELSE << >>)
         \o get_events(Tail(stored), f)

notAL == <<smVars, cnVars, scVars, ssVars, awVars, cvVars, limits, requests, blocks, nCalls>>

\* log_event(event): appends the event to the in-memory sequence
LogEventCall(e) ==
  /\ Len(events) < MaxEvents
  /\ events' = Append(events, e)
  /\ ret' = [op |-> "log_event", event |-> e]
  /\ UNCHANGED <<notAL, clock>>

\* get_events(user_id, event_type, start_time, end_time)
GetEventsCall(f) ==
  /\ ret.op # "get_events"
  /\ ret' = [op |-> "get_events", filters |-> f, result |-> get_events(events, f)]
  /\ UNCHANGED <<notAL, clock, events>>

\* clear(): discards all stored events
ClearCall ==
  /\ events' = << >>
  /\ ret' = [op |-> "clear"]
  /\ UNCHANGED <<notAL, clock>>

TickAL == Tick /\ UNCHANGED <<notAL, events>>

InitAL ==
  /\ InitManager
  /\ InitLimiter
  /\ InitSessions
  /\ InitAuditLog
  /\ InitElement
  /\ InitSweeper
  /\ session_timeout = 30
  /\ limits = EmptyMap
  /\ clock = 0
  /\ ret = NoCall

\* an event is created by its caller at the current time (AuditEvent.timestamp
\* defaults to datetime.utcnow()) and logged at once
NextAL ==
  \/ \E t \in LogEventTypes, u \in LogUsers : LogEventCall(LoggedEvent(clock, t, u))
  \/ \E f \in Filters : GetEventsCall(f)
  \/ ClearCall
  \/ TickAL

SpecAL == InitAL /\ [][NextAL]_vars

\* ======================================================= claims, C1 - C10

\* The stored grant of (role, r), and the spec's default NONE for a pair with no entry
HasGrant(role, r) ==
  /\ role \in DOMAIN role_permissions
  /\ r \in DOMAIN role_permissions[role]
GrantOrNone(role, r) == IF HasGrant(role, r) THEN role_permissions[role][r] ELSE NONE

IsCheck == ret.op = "check_access"
BelowRequired ==
  /\ ret.resource_id \in DOMAIN security_policies
  /\ ret.context.security_level < security_policies[ret.resource_id]

\* C1: a context whose security level is strictly below the level configured for
\* the resource is never granted access: check_access raises the clearance
\* failure, whatever the context's roles are granted on the resource.
C1_ClearanceGate ==
  (IsCheck /\ BelowRequired) => ret.outcome = "raise_SecurityViolation"

C1_Witness ==
  /\ IsCheck /\ BelowRequired
  /\ \E role \in ret.context.roles :
       HasGrant(role, ret.resource_id)
       /\ role_permissions[role][ret.resource_id] = FULL
  /\ ret.outcome = "raise_SecurityViolation"

\* C2: when the clearance gate passes, check_access grants exactly when some role
\* of the context has a grant on the resource (NONE when the pair has no entry)
\* that is FULL or of ordinal >= the required right, i.e. when the maximum grant
\* over the context's roles suffices.
C2_MaxGrantDecides ==
  (IsCheck /\ ~BelowRequired) =>
    (ret.outcome = "return_True" <=>
       \E role \in ret.context.roles :
          \/ GrantOrNone(role, ret.resource_id) = FULL
          \/ GrantOrNone(role, ret.resource_id) >= ret.required_right)

\* The context has no role with a stored grant that meets the required right
NoRoleSatisfies ==
  \A role \in ret.context.roles :
     ~(HasGrant(role, ret.resource_id)
       /\ role_permissions[role][ret.resource_id] >= ret.required_right)

\* C3 (as claimed): a permission denial is a raised failure, not an ordinary
\* return value.
C3_PermissionDenialRaises ==
  (IsCheck /\ ~BelowRequired /\ NoRoleSatisfies) =>
     ret.outcome \notin {"return_True", "return_False"}

\* C3 (amended): a permission denial is the ordinary return value False, raising
\* nothing, and so differs from the clearance failure, which raises
\* SecurityViolation.
C3_PermissionDenialReturnsFalse ==
  IsCheck =>
    /\ (~BelowRequired /\ NoRoleSatisfies) => ret.outcome = "return_False"
    /\ BelowRequired => ret.outcome = "raise_SecurityViolation"

C3_Witness ==
  /\ IsCheck /\ ~BelowRequired /\ NoRoleSatisfies
  /\ ret.context.roles # {}
  /\ ret.resource_id \in DOMAIN security_policies
  /\ ret.outcome = "return_False"

\* C5: a check_access call that runs while another thread changes the policy
\* returns an outcome that check_access has on the policy state of some single
\* instant between the call's start and its return.
C5_ConsistentSnapshot ==
  rd.pc = "done" => rd.outcome \in rd.seen

\* --------------------------------------------------------- rate limiter
\* The timestamps stored for (r, c), and whether a block entry is stored
Stored(reqs, r, c) ==
  IF r \in DOMAIN reqs /\ c \in DOMAIN reqs[r] THEN reqs[r][c] ELSE <<>>
HasBlock(blks, r, c) == r \in DOMAIN blks /\ c \in DOMAIN blks[r]
ActiveBlock(blks, r, c, now) == HasBlock(blks, r, c) /\ now < blks[r][c]

\* A step that is a check_rate_limit call on a configured resource
LimitedCheckStep == nCalls' # nCalls /\ ret'.limited

Min(a, b) == IF a < b THEN a ELSE b

\* C4: threads that call check_rate_limit for one (resource, client), starting
\* from an empty history and all within one window: once they have returned,
\* exactly min(N, max_requests) of the N calls were admitted and the others
\* raised RateLimitExceeded.
Returned == {t \in Threads : th[t].pc = "done"}
Admitted == {t \in Returned : th[t].result = "admitted"}
AllReturned == \A t \in Threads : th[t].pc \in {"idle", "done"}
WithinOneWindow ==
  \A a, b \in Returned : th[a].now - th[b].now < limits[ConcResource].window_seconds

C4_ExactlyMaxAdmitted ==
  (AllReturned /\ WithinOneWindow) =>
     /\ Cardinality(Admitted) = Min(Cardinality(Returned), limits[ConcResource].requests)
     /\ \A t \in Returned \ Admitted : th[t].result = "raised"

C4_Witness ==
  /\ Returned = Threads
  /\ WithinOneWindow
  /\ limits[ConcResource].requests = 2
  /\ Cardinality(Admitted) = 2
  /\ \E a, b \in Returned : th[a].now # th[b].now

\* C6: a check_rate_limit call on a configured resource that finds no active
\* block counts the timestamps still inside the window; if they are already
\* max_requests it records nothing, sets block-until to now + block_seconds and
\* raises with wait_time = block_seconds; otherwise it records now and admits.
C6_WindowCheck ==
  [][ LET r == ret'.resource_id
          c == ret'.client_id
          now == ret'.now
          kept == SelectSeq(Stored(requests, r, c),
                            LAMBDA x : x > now - limits[r].window_seconds)
      IN (LimitedCheckStep /\ ~ActiveBlock(blocks, r, c, now)) =>
           IF Len(kept) >= limits[r].requests
           THEN /\ Stored(requests', r, c) = kept
                /\ HasBlock(blocks', r, c)
                /\ blocks'[r][c] = now + limits[r].block_seconds
                /\ ret'.raised
                /\ ret'.wait_time = limits[r].block_seconds
           ELSE /\ Stored(requests', r, c) = Append(kept, now)
                /\ ~HasBlock(blocks', r, c)
                /\ ~ret'.raised ]_vars

C6_Witness ==
  /\ ret.op = "check_rate_limit" /\ ret.limited
  /\ ret.raised /\ ret.by = "limit"
  /\ ret.wait_time = limits[ret.resource_id].block_seconds
  /\ blocks[ret.resource_id][ret.client_id] = ret.now + ret.wait_time
  /\ Len(requests[ret.resource_id][ret.client_id]) = 2

\* C7 (as claimed): a call rejected by an active block raises with wait_time =
\* block-until - now, which is > 0 and <= block_seconds.
C7_WaitWithinBlockSeconds ==
  (ret.op = "check_rate_limit" /\ ret.limited /\ ret.raised /\ ret.by = "block") =>
     /\ ret.wait_time = blocks[ret.resource_id][ret.client_id] - ret.now
     /\ ret.wait_time > 0
     /\ ret.wait_time <= limits[ret.resource_id].block_seconds

\* C7 (amended): while a block is active every call raises with wait_time =
\* block-until - now > 0 (no bound by block_seconds); a call at now >= block-until
\* removes the entry and its outcome is the window check's: the entry is absent
\* after an admitted call and is a new block until now + block_seconds after a
\* rejected one.
C7_BlockCheck ==
  [][ LET r == ret'.resource_id
          c == ret'.client_id
          now == ret'.now
      IN (LimitedCheckStep /\ HasBlock(blocks, r, c)) =>
           IF now < blocks[r][c]
           THEN /\ ret'.raised
                /\ ret'.by = "block"
                /\ ret'.wait_time = blocks[r][c] - now
                /\ ret'.wait_time > 0
           ELSE /\ ret'.by = "limit"
                /\ IF ret'.raised
                   THEN /\ HasBlock(blocks', r, c)
                        /\ blocks'[r][c] = now + limits[r].block_seconds
                   ELSE ~HasBlock(blocks', r, c) ]_vars

C7_Witness ==
  /\ ret.op = "check_rate_limit" /\ ret.limited
  /\ ret.raised /\ ret.by = "block"
  /\ ret.wait_time = blocks[ret.resource_id][ret.client_id] - ret.now
  /\ ret.wait_time = 1

\* C8: with max_requests=2, window_seconds=1, block_seconds=2, the calls of client
\* A at t=0 and t=0 are admitted, A's call at t=0.1 raises with wait_time 2, B's
\* call at t=0.1 is admitted, and A's call at t=2.2 is admitted again.
C8_ScenarioOutcomes ==
  pos > Len(Scenario) =>
     outs = << [raised |-> FALSE, wait_time |-> 0],
               [raised |-> FALSE, wait_time |-> 0],
               [raised |-> TRUE, wait_time |-> 20],
               [raised |-> FALSE, wait_time |-> 0],
               [raised |-> FALSE, wait_time |-> 0] >>

\* ------------------------------------------------------------ session claims
Indexed(us, sid) == \E u \in DOMAIN us : sid \in us[u]

\* C9: get_session never returns an expired session: called at now > expires_at
\* of the stored session it removes the session from the session table and from
\* its user's index and returns empty; called at now <= expires_at it returns the
\* session; for an id not in the table it returns empty and changes nothing.
C9_LazyExpiry ==
  [][ \A sid \in SessionIds :
        GetSessionCall(sid) =>
          IF sid \notin DOMAIN sessions
          THEN /\ ~ret'.found
               /\ sessions' = sessions
               /\ user_sessions' = user_sessions
          ELSE IF clock > sessions[sid].expires_at
          THEN /\ ~ret'.found
               /\ sid \notin DOMAIN sessions'
               /\ ~Indexed(user_sessions', sid)
          ELSE /\ ret'.found
               /\ ret'.session.session_id = sid
               /\ ret'.session.user_id = sessions[sid].user_id
               /\ sid \in DOMAIN sessions'
               /\ Indexed(user_sessions', sid)
               /\ clock <= ret'.session.expires_at ]_vars

C9_Witness ==
  /\ ret.op = "get_session"
  /\ ret.stored = "expired"
  /\ ~ret.found
  /\ ret.session_id \notin DOMAIN sessions
  /\ ~Indexed(user_sessions, ret.session_id)
  /\ Cardinality(DOMAIN sessions) = 1

\* C10: a successful get_session never moves a session's expiry earlier:
\* whatever duration the session was created with, expires_at after the call is
\* >= expires_at before it.
C10_ExpiryNeverEarlier ==
  [][ \A sid \in SessionIds :
        (GetSessionCall(sid) /\ ret'.found) =>
           sessions'[sid].expires_at >= sessions[sid].expires_at ]_vars

\* C11: in every reachable state the two indexes agree: a session id is in the
\* session table exactly when it is in the set indexed under that session's
\* user id, and the per-user index holds no entry whose set is empty.
C11_IndexesAgree ==
  /\ \A sid \in DOMAIN sessions :
        /\ sessions[sid].user_id \in DOMAIN user_sessions
        /\ sid \in user_sessions[sessions[sid].user_id]
  /\ \A u \in DOMAIN user_sessions :
        /\ user_sessions[u] # {}
        /\ \A sid \in user_sessions[u] :
              sid \in DOMAIN sessions /\ sessions[sid].user_id = u

C11_Witness ==
  /\ ret.op = "invalidate_session" /\ ret.stored = "valid"
  /\ nCreated = 2
  /\ DOMAIN sessions = {}
  /\ DOMAIN user_sessions = {}

\* C12: in every reachable state every stored session has expires_at >=
\* created_at, for every duration create_session accepts and after any number
\* of renewals.
C12_ExpiryNotBeforeCreation ==
  \A sid \in DOMAIN sessions : sessions[sid].expires_at >= sessions[sid].created_at

IndexedUnder(us, u) == IF u \in DOMAIN us THEN us[u] ELSE {}
\* an id that a session had and that is no longer stored
Retired(sid) == sid <= nCreated /\ sid \notin DOMAIN sessions

\* C13: invalidate_user_sessions(u) removes every session indexed under u at the
\* time of the call and u's entry of the per-user index, and leaves every session
\* of every other user present and unchanged; an id removed stays absent, so
\* that a later get_session on it returns empty.
C13_InvalidateUserSessions ==
  [][ /\ \A u \in SessionUsers :
            InvalidateUserSessionsCall(u) =>
              /\ \A sid \in IndexedUnder(user_sessions, u) : sid \notin DOMAIN sessions'
              /\ u \notin DOMAIN user_sessions'
              /\ \A sid \in DOMAIN sessions \ IndexedUnder(user_sessions, u) :
                    sid \in DOMAIN sessions' /\ sessions'[sid] = sessions[sid]
              /\ \A v \in DOMAIN user_sessions \ {u} :
                    v \in DOMAIN user_sessions' /\ user_sessions'[v] = user_sessions[v]
      /\ \A sid \in SessionIds :
            /\ Retired(sid) => sid \notin DOMAIN sessions'
            /\ (Retired(sid) /\ GetSessionCall(sid)) => ~ret'.found ]_vars

C13_Witness ==
  /\ ret.op = "invalidate_user_sessions"
  /\ ret.removed = 1
  /\ Cardinality(DOMAIN sessions) = 1
  /\ Cardinality(DOMAIN user_sessions) = 1

\* C14: invalidate_session(id) removes the session with that id whether or not
\* it has expired, and get_session(id) afterwards returns empty; when no session
\* has that id the call changes nothing; in both cases every other session is
\* left unchanged.
C14_InvalidateSession ==
  [][ \A sid \in SessionIds :
        /\ InvalidateSessionCall(sid) =>
              /\ sid \notin DOMAIN sessions'
              /\ ~Indexed(user_sessions', sid)
              /\ \A other \in DOMAIN sessions \ {sid} :
                    /\ other \in DOMAIN sessions'
                    /\ sessions'[other] = sessions[other]
                    /\ Indexed(user_sessions', other)
              /\ sid \notin DOMAIN sessions =>
                    sessions' = sessions /\ user_sessions' = user_sessions
        /\ (sid \notin DOMAIN sessions /\ GetSessionCall(sid)) => ~ret'.found
        /\ Retired(sid) => Retired(sid)' ]_vars

C14_Witness ==
  /\ ret.op = "invalidate_session"
  /\ ret.stored = "expired"
  /\ Cardinality(DOMAIN sessions) = 1
  /\ nCreated = 2

\* C15: every session whose expires_at has passed is eventually removed from the
\* session table and from the per-user index, provided the sweep thread keeps
\* being scheduled.
ExpiredStored(sid) == sid \in DOMAIN sessions /\ clock > sessions[sid].expires_at

C15_SweepReclaims ==
  \A sid \in SessionIds :
    ExpiredStored(sid) ~> (sid \notin DOMAIN sessions /\ ~Indexed(user_sessions, sid))

C15_Witness ==
  /\ ret.op = "cleanup"
  /\ ret.removed = 1
  /\ nCreated = 1
  /\ DOMAIN sessions = {}
  /\ DOMAIN user_sessions = {}

\* C16: create_session(user, roles, d) adds exactly one session, under an id no
\* stored session has, with created_at = last_accessed = now and expires_at =
\* now + d when a duration d is supplied (now + default_timeout when none is);
\* it indexes the session by id and under the user and leaves the existing
\* sessions unchanged.
C16_CreateSession ==
  [][ \A sid \in SessionIds, user \in SessionUsers, roles \in SessionRoles,
         d \in DurationArgs :
        CreateSessionCall(sid, user, roles, d) =>
          /\ sid \notin DOMAIN sessions
          /\ DOMAIN sessions' = DOMAIN sessions \cup {sid}
          /\ sessions'[sid].user_id = user
          /\ sessions'[sid].roles = roles
          /\ sessions'[sid].created_at = clock
          /\ sessions'[sid].last_accessed = clock
          /\ sessions'[sid].expires_at =
                clock + (IF d.some THEN d.value ELSE session_timeout)
          /\ sid \in IndexedUnder(user_sessions', user)
          /\ \A other \in DOMAIN sessions : sessions'[other] = sessions[other] ]_vars

\* -------------------------------------------------------------- audit claims
AuditEffects(effects) == SelectSeq(effects, LAMBDA e : e.kind = "audit")
Denied == ret.outcome \in {"return_False", "raise_SecurityViolation"}

\* C17: every check_access call appends exactly one audit event for that call,
\* carrying the caller's user id, the resource id and the required right; when
\* the call is denied, by clearance or by permission, the event is appended
\* before the failure is returned or raised.
C17_OneAuditEventPerCheck ==
  IsCheck =>
    /\ Len(AuditEffects(ret.effects)) = 1
    /\ LET event == AuditEffects(ret.effects)[1].event
       IN  /\ event.user_id = ret.context.user_id
           /\ event.resource_id = ret.resource_id
           /\ event.action = AccessRightName[ret.required_right]
    /\ ret.effects[1].kind = "audit"
    /\ ret.effects[Len(ret.effects)] = Outcome(ret.outcome)
    /\ \A i \in 1..(Len(ret.effects) - 1) : ret.effects[i].kind # "outcome"

C17_Witness ==
  /\ IsCheck
  /\ ret.outcome = "raise_SecurityViolation"
  /\ ret.effects[1].kind = "audit"
  /\ ret.effects[1].event.status = "failure"
  /\ ret.effects[Len(ret.effects)].kind = "outcome"

\* C18 (as claimed): a granted check_access records an audit event whose type
\* is "access_granted"; a denied one records an event whose type is
\* "access_denied", with reason insufficient_security_level for a clearance
\* failure and insufficient_permissions for a permission failure.
C18_GrantedDeniedEventTypes ==
  IsCheck =>
    LET event == AuditEffects(ret.effects)[1].event
    IN  CASE ret.outcome = "return_True" -> event.event_type = "access_granted"
          [] ret.outcome = "return_False" ->
               /\ event.event_type = "access_denied"
               /\ event.details = [reason |-> "insufficient_permissions"]
          [] ret.outcome = "raise_SecurityViolation" ->
               /\ event.event_type = "access_denied"
               /\ event.details = [reason |-> "insufficient_security_level"]

\* C18 (amended): every check_access records an event of type "access_attempt";
\* its status is "success" for a granted call and "failure" for a denied one,
\* with reason insufficient_security_level for a clearance failure and
\* insufficient_permissions for a permission failure.
C18_AccessAttemptStatus ==
  IsCheck =>
    LET event == AuditEffects(ret.effects)[1].event
    IN  /\ event.event_type = "access_attempt"
        /\ CASE ret.outcome = "return_True" ->
                   event.status = "success" /\ event.details = NoDetails
              [] ret.outcome = "return_False" ->
                   /\ event.status = "failure"
                   /\ event.details = [reason |-> "insufficient_permissions"]
              [] ret.outcome = "raise_SecurityViolation" ->
                   /\ event.status = "failure"
                   /\ event.details = [reason |-> "insufficient_security_level"]

C18_Witness ==
  /\ IsCheck
  /\ ret.outcome = "return_False"
  /\ AuditEffects(ret.effects)[1].event.status = "failure"
  /\ AuditEffects(ret.effects)[1].event.details.reason = "insufficient_permissions"

\* ------------------------------------------------------------ default claims
\* the grant map after set_role_permissions(role, r, NONE)
WithExplicitNone(perms, role, r) ==
  Put(perms, role, Put(IF role \in DOMAIN perms THEN perms[role] ELSE EmptyMap, r, NONE))

\* C19: check_access gives the same outcome for a role/resource pair that has
\* no grant entry as for the same pair explicitly granted NONE, for every
\* context, every resource and every required right, NONE included.
C19_UnsetGrantIsNone ==
  IsCheck =>
    \A role \in Roles :
      ~HasGrant(role, ret.resource_id) =>
        \A order \in Orders(ret.context.roles) :
          check_access(security_policies,
                       WithExplicitNone(role_permissions, role, ret.resource_id),
                       ret.context, order, ret.resource_id, ret.required_right)
            = ret.outcome

\* C20: for a resource with no configured security policy, check_access
\* succeeds for a context of any security level that holds a role granted FULL
\* on the resource, for every required right, and every call has the outcome it
\* would have if the resource's required level were LOW.
C20_UnsetPolicyIsLow ==
  (IsCheck /\ ret.resource_id \notin DOMAIN security_policies) =>
    /\ (\E role \in ret.context.roles :
          HasGrant(role, ret.resource_id)
          /\ role_permissions[role][ret.resource_id] = FULL)
         => ret.outcome = "return_True"
    /\ \A order \in Orders(ret.context.roles) :
         check_access(Put(security_policies, ret.resource_id, LOW), role_permissions,
                      ret.context, order, ret.resource_id, ret.required_right)
           = ret.outcome

C20_Witness ==
  /\ IsCheck
  /\ ret.resource_id \notin DOMAIN security_policies
  /\ ret.context.security_level = LOW
  /\ ret.required_right = FULL
  /\ \E role \in ret.context.roles :
        HasGrant(role, ret.resource_id) /\ role_permissions[role][ret.resource_id] = FULL
  /\ ret.outcome = "return_True"

\* ----------------------------------------------------- policy-operation claims
PolicyChangeEvents(effects) ==
  SelectSeq(effects, LAMBDA e : e.kind = "audit" /\ e.event.event_type = "policy_change")

\* C21: a set_security_policy(r, level) call made when the same call has
\* already been made leaves both policy maps as they were after the first call,
\* so that every check_access has the outcome it would have after one call;
\* only the audit log differs, by one more policy_change event.
C21_SetSecurityPolicyIdempotent ==
  [][ \A r \in Resources, level \in SecurityLevel :
        ( /\ r \in DOMAIN security_policies
          /\ security_policies[r] = level
          /\ SetSecurityPolicyCall(r, level) ) =>
            /\ security_policies' = security_policies
            /\ role_permissions' = role_permissions
            /\ Len(ret'.effects) = 1
            /\ Len(PolicyChangeEvents(ret'.effects)) = 1
            /\ \A ctx \in Contexts, r2 \in Resources, q \in AccessRight :
                 \A order \in Orders(ctx.roles) :
                   check_access(security_policies', role_permissions', ctx, order, r2, q)
                     = check_access(security_policies, role_permissions, ctx, order, r2, q)
    ]_vars

C21_Witness ==
  /\ ret.op = "set_security_policy"
  /\ ret.previous = Some(ret.level)
  /\ security_policies[ret.resource_id] = ret.level
  /\ nPolicyOps = 2
  /\ Len(PolicyChangeEvents(ret.effects)) = 1

\* C22: get_security_level(r) and get_role_permissions(role, r) return the
\* stored value, or None when there is no entry, add no entry to either policy
\* map (also for a role or resource never seen before) and append no audit event.
C22_GettersArePure ==
  [][ /\ \A r \in Resources :
            GetSecurityLevelCall(r) =>
              /\ ret'.result = (IF r \in DOMAIN security_policies
                                THEN Some(security_policies[r]) ELSE None)
              /\ security_policies' = security_policies
              /\ role_permissions' = role_permissions
              /\ ret'.effects = << >>
      /\ \A role \in Roles, r \in Resources :
            GetRolePermissionsCall(role, r) =>
              /\ ret'.result = (IF HasGrant(role, r)
                                THEN Some(role_permissions[role][r]) ELSE None)
              /\ security_policies' = security_policies
              /\ role_permissions' = role_permissions
              /\ ret'.effects = << >> ]_vars

C22_Witness ==
  /\ ret.op = "get_security_level"
  /\ ret.result = None
  /\ ret.resource_id \notin DOMAIN security_policies
  /\ nPolicyOps > 0

\* ------------------------------------------------- get_remaining_requests claims
IsRemaining == ret.op = "get_remaining_requests"
InWindow(reqs, r, c, now, window) ==
  Len(SelectSeq(Stored(reqs, r, c), LAMBDA t : t > now - window))

\* C23: get_remaining_requests returns the no-limit sentinel for an unconfigured
\* resource, 0 when the client is currently blocked (now < block-until), and
\* otherwise max(0, max_requests - number of recorded timestamps inside the
\* current window); once a block has elapsed it no longer returns 0 on account
\* of that block.
C23_RemainingRequests ==
  IsRemaining =>
    IF ret.resource_id \notin DOMAIN limits THEN ~ret.limited
    ELSE /\ ret.limited
         /\ ret.value =
              IF ActiveBlock(blocks, ret.resource_id, ret.client_id, ret.now) THEN 0
              ELSE LET left == limits[ret.resource_id].requests
                                 - InWindow(requests, ret.resource_id, ret.client_id,
                                            ret.now, limits[ret.resource_id].window_seconds)
                   IN  IF left > 0 THEN left ELSE 0

\* C24: get_remaining_requests changes no limiter state: the configured limits,
\* the recorded timestamps and the block entries of every (resource, client),
\* pairs never seen before included, are the same before and after the call.
C24_RemainingRequestsIsPure ==
  [][ \A r \in LimitedResources, c \in Clients :
        GetRemainingRequestsCall(r, c) =>
          /\ limits' = limits
          /\ requests' = requests
          /\ blocks' = blocks ]_vars

\* --------------------------------------------------------- AuditLog claims

\* the claim's reading of "matches every supplied filter"
PassesEvery(f, e) ==
  /\ (f.user_id = None \/ f.user_id.value = e.user_id)
  /\ (f.event_type = None \/ f.event_type.value = e.event_type)
  /\ (f.start_time = None \/ f.start_time.value <= e.timestamp)
  /\ (f.end_time = None \/ e.timestamp <= f.end_time.value)
StoredMatching(f) == SelectSeq(events, LAMBDA e : PassesEvery(f, e))
IsPrefix(s, t) == Len(s) <= Len(t) /\ SubSeq(t, 1, Len(s)) = s

LastEffect == ret'.effects[Len(ret'.effects)]
NothingRaisedToCaller == \A i \in 1..Len(ret'.effects) : ret'.effects[i].kind # "outcome"

\* C26: a failing write to the audit sink never reaches the caller: check_access
\* ends with the outcome its clearance and permission gates decide and leaves
\* both policy maps alone, and set_security_policy / set_role_permissions store
\* the requested entry and return normally, whether the write succeeds or fails.
C26_SinkFailureNeverReachesCaller ==
  [][ /\ ret'.op = "check_access" =>
           /\ \A order \in Orders(ret'.context.roles) :
                LastEffect = Outcome(check_access(security_policies, role_permissions,
                                        ret'.context, order, ret'.resource_id,
                                        ret'.required_right))
           /\ security_policies' = security_policies
           /\ role_permissions' = role_permissions
      /\ ret'.op = "set_security_policy" =>
           /\ security_policies' = Put(security_policies, ret'.resource_id, ret'.level)
           /\ role_permissions' = role_permissions
           /\ NothingRaisedToCaller
      /\ ret'.op = "set_role_permissions" =>
           /\ ret'.role \in DOMAIN role_permissions'
           /\ ret'.resource_id \in DOMAIN role_permissions'[ret'.role]
           /\ role_permissions'[ret'.role][ret'.resource_id] = ret'.access_right
           /\ security_policies' = security_policies
           /\ NothingRaisedToCaller ]_vars
\* a granted check_access whose audit record was lost to a failing sink
C26_Witness ==
  /\ ret.op = "check_access"
  /\ ~ret.sink_ok
  /\ ret.effects = << Outcome("return_True") >>

\* ---------------------------------------------------------- wrapper claims

IsSetValue == ret.op = "set_value"
AtMostRead(ctx, r) == \A role \in ctx.roles : GrantOrNone(role, r) <= READ
ClearanceBelow(ctx, r) ==
  /\ r \in DOMAIN security_policies
  /\ ctx.security_level < security_policies[r]

\* C27: set_value changes the wrapped element's value only when check_access
\* for WRITE on the element granted; for a context whose roles hold at most READ
\* on the element, or whose clearance is below the element's level, set_value
\* raises SecurityViolation and the value is the one before the call.
C27_SetValueOnlyWhenGranted ==
  IsSetValue =>
    /\ value # ret.before => ret.check = "return_True"
    /\ (AtMostRead(ret.context, ElementIdShort) \/ ClearanceBelow(ret.context, ElementIdShort)) =>
         /\ ret.outcome = "raise_SecurityViolation"
         /\ value = ret.before
\* a context with sufficient clearance whose role holds READ tried to write a
\* new value and was refused
C27_Witness ==
  /\ IsSetValue
  /\ ret.manager = "core"
  /\ ret.new # ret.before
  /\ ~ClearanceBelow(ret.context, ElementIdShort)
  /\ \E role \in ret.context.roles : GrantOrNone(role, ElementIdShort) = READ
  /\ AtMostRead(ret.context, ElementIdShort)
  /\ ret.outcome = "raise_SecurityViolation"

IsWrapperGet == ret.op \in {"get_submodel", "get_element"}
ParentOf(op) == IF op = "get_submodel" THEN AasIdShort ELSE SubmodelIdShort
\* the claim's reading of a granted READ on the parent: clearance suffices and
\* some role of the context has a stored grant of READ or more
GrantedRead(ctx, r) ==
  /\ ~ClearanceBelow(ctx, r)
  /\ \E role \in ctx.roles : HasGrant(role, r) /\ role_permissions[role][r] >= READ

\* C28: get_submodel and get_element answer a caller whose check on the parent
\* was denied, for the clearance or for the permission reason, with a
\* SecurityViolation and never with the 'not found' result None; None is given
\* only to a caller whose check on the parent was granted.
C28_DenialIsNotAbsence ==
  IsWrapperGet =>
    /\ ~GrantedRead(ret.context, ParentOf(ret.op)) => ret.outcome = "raise_SecurityViolation"
    /\ ret.outcome = "return_None" =>
         /\ GrantedRead(ret.context, ParentOf(ret.op))
         /\ ret.check = "return_True"
\* a caller denied for the permission reason asked for a child that does not
\* exist and got the SecurityViolation
C28_Witness ==
  /\ IsWrapperGet
  /\ ret.child_id = "missing"
  /\ ret.check = "return_False"
  /\ ret.outcome = "raise_SecurityViolation"

\* ---------------------------------------------------------- renewal claims

RenewedFields == {"last_accessed", "expires_at"}

\* C29: a get_session at time now that finds a stored, unexpired session sets
\* that session's last_accessed to now and its expires_at to now plus the
\* manager's default timeout, and changes no other field of it, no other
\* session and no index entry.
C29_SlidingRenewal ==
  [][ \A sid \in SessionIds :
        ( /\ sid \in DOMAIN sessions
          /\ clock <= sessions[sid].expires_at
          /\ GetSessionCall(sid) ) =>
            /\ DOMAIN sessions' = DOMAIN sessions
            /\ sessions'[sid].last_accessed = clock
            /\ sessions'[sid].expires_at = clock + session_timeout
            /\ DOMAIN sessions'[sid] = DOMAIN sessions[sid]
            /\ \A f \in DOMAIN sessions[sid] \ RenewedFields :
                 sessions'[sid][f] = sessions[sid][f]
            /\ \A other \in DOMAIN sessions \ {sid} : sessions'[other] = sessions[other]
            /\ user_sessions' = user_sessions ]_vars
\* a session read some time after its creation, while another session is stored
C29_Witness ==
  /\ ret.op = "get_session"
  /\ ret.found
  /\ ret.now > ret.session.created_at
  /\ ret.session.expires_at = ret.now + session_timeout
  /\ Cardinality(DOMAIN sessions) >= 2

\* --------------------------------------------------------- eviction claims

\* the recorded timestamps the claim keeps: those not older than now - window
NotOlderThanWindow(ts, now, window_seconds) ==
  SelectSeq(ts, LAMBDA t : t >= now - window_seconds)

\* C30: a check_rate_limit call at time now that passes the block check drops
\* exactly the recorded timestamps of (resource, client) with
\* t < now - window_seconds; a timestamp with t >= now - window_seconds, one
\* exactly window_seconds old included, is kept and counts against max_requests.
C30_EvictionBoundary ==
  [][ (LimitedCheckStep /\ ret'.by = "limit") =>
        LET r == ret'.resource_id
            c == ret'.client_id
            kept == NotOlderThanWindow(Stored(requests, r, c), ret'.now,
                                       limits[r].window_seconds)
        IN  /\ ret'.raised = (Len(kept) >= limits[r].requests)
            /\ Stored(requests', r, c) =
                 IF ret'.raised THEN kept ELSE Append(kept, ret'.now) ]_vars

\* ------------------------------------------------------ grant-replacement claims

IsSetRolePermissions == nPolicyOps' # nPolicyOps /\ ret'.op = "set_role_permissions"
\* the grant of (role, r) in a permission map, as an Optional
GrantIn(perms, role, r) ==
  IF role \in DOMAIN perms /\ r \in DOMAIN perms[role] THEN Some(perms[role][r]) ELSE None
OnlyRole(role, level) == [user_id |-> "u1", roles |-> {role}, security_level |-> level]

\* C31: set_role_permissions(role, r, x) makes x the grant of (role, r), whatever
\* the grant was before, and the next check_access of a context holding only
\* that role is decided by x (also when x is lower than the earlier grant); the
\* grant of every other pair and the level of every resource stay as they were.
C31_SetRolePermissionsReplaces ==
  [][ IsSetRolePermissions =>
        LET role == ret'.role
            r == ret'.resource_id
            x == ret'.access_right
        IN  /\ GrantIn(role_permissions', role, r) = Some(x)
            /\ \A role2 \in Roles, r2 \in Resources :
                 <<role2, r2>> # <<role, r>> =>
                   GrantIn(role_permissions', role2, r2) = GrantIn(role_permissions, role2, r2)
            /\ security_policies' = security_policies
            /\ \A q \in AccessRight :
                 check_access(security_policies', role_permissions',
                              OnlyRole(role, CRITICAL), <<role>>, r, q)
                   = IF x >= q THEN "return_True" ELSE "return_False" ]_vars
\* a grant lowered by the second policy operation
C31_Witness ==
  /\ ret.op = "set_role_permissions"
  /\ ret.previous.some
  /\ ret.access_right < ret.previous.value
  /\ role_permissions[ret.role][ret.resource_id] = ret.access_right

\* ------------------------------------------------------------- sweep claims

SweepHoldsLock == sweep.pc \in {"now", "collect", "remove"}
SweepRemoveStep == sweep.pc = "remove" /\ sweep'.expired # sweep.expired
SweepReleaseStep == sweep.pc = "remove" /\ sweep'.pc = "sleep"
ExpiredAtPass(session) == sweep.now > session.expires_at

\* C32: a pass of the background sweep removes exactly the sessions with
\* now > expires_at at the moment of the pass.  Every session a pass removes is
\* expired for the pass's now as it is stored at the removal (so not one that a
\* get_session renewed), every session that remains keeps all its fields, no
\* foreground call changes the sessions during the pass, and at the end of the
\* pass no stored session is expired for the pass's now.
C32_SweepRemovesExactlyExpired ==
  [][ /\ SweepRemoveStep =>
           /\ \A sid \in DOMAIN sessions \ DOMAIN sessions' : ExpiredAtPass(sessions[sid])
           /\ \A sid \in DOMAIN sessions' :
                sid \in DOMAIN sessions /\ sessions'[sid] = sessions[sid]
           /\ \A e \in sweep.expired \ sweep'.expired : e.session_id \notin DOMAIN sessions'
      /\ (SweepHoldsLock /\ sweep' = sweep /\ clock' = clock) =>
           (sessions' = sessions /\ user_sessions' = user_sessions)
      /\ SweepReleaseStep =>
           \A sid \in DOMAIN sessions : ~ExpiredAtPass(sessions[sid]) ]_vars
\* a pass has just removed an expired session and keeps a session that a
\* get_session renewed before the pass
C32_Witness ==
  /\ ret.op = "sweep_remove"
  /\ sweep.pc = "remove"
  /\ \E sid \in DOMAIN sessions :
       /\ sessions[sid].last_accessed > sessions[sid].created_at
       /\ sessions[sid].last_accessed <= sweep.now
       /\ sessions[sid].expires_at >= sweep.now

\* ------------------------------------------------------- current_time claims

\* C33: the outcome and the state change of check_rate_limit(resource, client,
\* current_time) are those of the stored limiter state and the supplied
\* current_time, for every supplied value, 0 included: the supplied value is
\* compared with block-until, gives the window start and is the recorded
\* timestamp; the wall clock plays no part.
C33_SuppliedTimeDecides ==
  [][ (LimitedCheckStep /\ ret'.current_time # NoTime) =>
        LET r == ret'.resource_id
            c == ret'.client_id
            res == CriticalSection(requests, blocks, limits[r], r, c, ret'.current_time)
        IN  /\ ret'.now = ret'.current_time
            /\ ret'.raised = res.raised
            /\ ret'.wait_time = res.wait_time
            /\ requests' = res.requests
            /\ blocks' = res.blocks ]_vars

\* ------------------------------------------------------ blocked-retry claims

RejectedByBlock == LimitedCheckStep /\ ret'.raised /\ ret'.by = "block"

\* C34: a check_rate_limit call that is rejected because a block is active
\* changes nothing: the block-until time and the recorded timestamps of the
\* (resource, client) are the same after the call as before it, and so is the
\* rest of the limiter's state.
C34_RejectedRetryChangesNothing ==
  [][ RejectedByBlock =>
        LET r == ret'.resource_id
            c == ret'.client_id
        IN  /\ HasBlock(blocks, r, c) /\ HasBlock(blocks', r, c)
            /\ blocks'[r][c] = blocks[r][c]
            /\ Stored(requests', r, c) = Stored(requests, r, c)
            /\ blocks' = blocks
            /\ requests' = requests
            /\ limits' = limits ]_vars
\* a call rejected by a block in force, made some time into the block and
\* after two earlier calls
C34_Witness ==
  /\ ret.op = "check_rate_limit"
  /\ ret.limited
  /\ ret.raised
  /\ ret.by = "block"
  /\ nCalls >= 3
  /\ ret.wait_time < limits[ret.resource_id].block_seconds

\* ---------------------------------------------------------- agreement claims

\* what a check_rate_limit call on the stored state would do at time now
WouldRaise(r, c, now) ==
  CriticalSection(requests, blocks, limits[r], r, c, now).raised

\* C35: get_remaining_requests and check_rate_limit agree: on a configured
\* resource, get_remaining_requests at time t returns 0 exactly when a
\* check_rate_limit call for the same (resource, client) at the same time t
\* would raise RateLimitExceeded.
C35_RemainingAgreesWithCheck ==
  (IsRemaining /\ ret.limited) =>
    ((ret.value = 0) <=> WouldRaise(ret.resource_id, ret.client_id, ret.now))

\* ---------------------------------------------------------- isolation claims

Pairs == Resources \X Clients
BlockEntry(blks, r, c) == IF HasBlock(blks, r, c) THEN Some(blks[r][c]) ELSE None
IsCheckStep == nCalls' # nCalls /\ ret'.op = "check_rate_limit"

\* C36: a check_rate_limit call for (r, c), admitted or rejected, leaves the
\* recorded timestamps and the block entry of every other (resource, client)
\* pair as they were, and with them the outcome that a call of any other pair
\* on a configured resource would have at any time.
C36_PairsAreIsolated ==
  [][ IsCheckStep =>
        \A p \in Pairs \ {<<ret'.resource_id, ret'.client_id>>} :
          /\ Stored(requests', p[1], p[2]) = Stored(requests, p[1], p[2])
          /\ BlockEntry(blocks', p[1], p[2]) = BlockEntry(blocks, p[1], p[2])
          /\ p[1] \in DOMAIN limits =>
               \A t \in Times :
                 CriticalSection(requests', blocks', limits[p[1]], p[1], p[2], t).raised
                   = CriticalSection(requests, blocks, limits[p[1]], p[1], p[2], t).raised ]_vars
\* one client was rejected on a resource on which another client holds a
\* recorded request and no block
C36_Witness ==
  /\ ret.op = "check_rate_limit"
  /\ ret.limited
  /\ ret.raised
  /\ \E p \in Pairs :
       /\ p[1] = ret.resource_id
       /\ p[2] # ret.client_id
       /\ Stored(requests, p[1], p[2]) # << >>
       /\ ~HasBlock(blocks, p[1], p[2])

\* ------------------------------------------------------------ window claims

AdmittedCalls(c) == SelectSeq(outs, LAMBDA o : o.admitted /\ o.client_id = c)

\* C37: with the limit unchanged and calls made at non-decreasing times, any
\* max_requests + 1 admitted calls of one (resource, client) span at least
\* window_seconds, and the pair never has more than max_requests timestamps
\* stored.
C37_WindowBound ==
  MonoResource \in DOMAIN limits =>
    \A c \in Clients :
      LET adm == AdmittedCalls(c)
          lim == limits[MonoResource]
      IN  /\ \A i \in 1..(Len(adm) - lim.requests) :
               adm[i + lim.requests].time - adm[i].time >= lim.window_seconds
          /\ Len(Stored(requests, MonoResource, c)) <= lim.requests

\* ---------------------------------------------------------- recovery claims

IsMonoCall == nCalls' # nCalls /\ ret'.op = "check_rate_limit" /\ ret'.limited

\* C38: a blocked client recovers: when block_seconds >= window_seconds and
\* the calls are made at non-decreasing times, the first check_rate_limit call
\* of a blocked (resource, client) whose time is at or after the block-until
\* time is admitted.
C38_BlockedClientRecovers ==
  [][ IsMonoCall =>
        LET r == ret'.resource_id
            c == ret'.client_id
        IN  ( /\ limits[r].block_seconds >= limits[r].window_seconds
              /\ HasBlock(blocks, r, c)
              /\ GivenTime(ret'.current_time, clock) >= blocks[r][c] ) =>
                ~ret'.raised ]_vars

\* ------------------------------------------------------ monotonicity claims

\* the contexts with at least the credentials of ctx
AtLeast(ctx) ==
  {c \in Contexts : /\ c.security_level >= ctx.security_level
                    /\ ctx.roles \subseteq c.roles}
GrantedNow(ctx, order, r, q) ==
  check_access(security_policies, role_permissions, ctx, order, r, q) = "return_True"

\* C39: check_access is monotone in the caller's credentials: on one policy
\* state, a check that is granted stays granted for every context with an
\* equal or higher security level and an equal or larger role set, and for
\* every required right of equal or lower ordinal.
C39_Monotone ==
  (IsCheck /\ ret.outcome = "return_True") =>
    \A c \in AtLeast(ret.context), q \in AccessRight :
      q <= ret.required_right =>
        \A order \in Orders(c.roles) : GrantedNow(c, order, ret.resource_id, q)
\* a granted check of a context that can still be raised, for a right that
\* has lower ones, on a resource with a required level
C39_Witness ==
  /\ IsCheck
  /\ ret.outcome = "return_True"
  /\ ret.context.security_level < CRITICAL
  /\ ret.context.roles # Roles
  /\ ret.required_right = WRITE
  /\ ret.resource_id \in DOMAIN security_policies

\* ------------------------------------------------------ dependence claims

\* the outcome as a function of the security level, the role set, the
\* resource, the required right and the two policy maps, and of nothing else
Decision(level, roles, r, q) ==
  IF r \in DOMAIN security_policies /\ level < security_policies[r]
  THEN "raise_SecurityViolation"
  ELSE IF \E role \in roles : HasGrant(role, r) /\ role_permissions[role][r] >= q
       THEN "return_True"
       ELSE "return_False"

\* C40: the outcome of check_access is decided by context.security_level,
\* context.roles, the resource id, the required right and the two policy maps:
\* whatever the context's user_id, token and timestamp are and whatever calls
\* were audited before, the call ends with that outcome, and it leaves both
\* policy maps unchanged.
C40_OutcomeDependsOnCredentialsAndPolicy ==
  [][ ret'.op = "check_access" =>
        /\ ret'.outcome = Decision(ret'.context.security_level, ret'.context.roles,
                                   ret'.resource_id, ret'.required_right)
        /\ ret'.effects[Len(ret'.effects)] = Outcome(ret'.outcome)
        /\ security_policies' = security_policies
        /\ role_permissions' = role_permissions ]_vars
\* a check by the second user, carrying a token and a later timestamp, after
\* two audited policy changes
C40_Witness ==
  /\ IsCheck
  /\ ret.context.user_id = "u2"
  /\ ret.context.token.some
  /\ ret.context.timestamp = 1
  /\ nPolicyOps = 2
  /\ ret.outcome = "return_True"

=============================================================================
